---- MODULE Spec2Model ----
(***************************************************************************)
(* A model of the zapybase vector database core: VectorStorage (the flat   *)
(* vector buffer and the two ID maps), HnswIndex (the layered graph, its   *)
(* insert and its search) and VectorDb, which composes the two.            *)
(*                                                                         *)
(* InternalIds are 0-based as in the source; TLA+ sequences are 1-based,   *)
(* so the node, the external id or the neighbour list with index i lives   *)
(* at position i + 1 of its sequence.                                      *)
(***************************************************************************)
EXTENDS Integers, Sequences, FiniteSets, TLC

VARIABLES
    config,          \* the collection's kind and its Config or QuantizedConfig
    vectors,         \* VectorStorage.vectors: the flat buffer of components
    id_to_internal,  \* id_to_internal of the storage: ExternalId -> InternalId
    internal_to_id,  \* internal_to_id of the storage: InternalId -> ExternalId
    original_vectors,\* QuantizedStorage.original_vectors: Option of a flat buffer
    sq8_vectors,     \* QuantizedStorage.sq8_vectors: the flat buffer of codes
    sq8_metadata,    \* QuantizedStorage.sq8_metadata: one (min, max) per vector
    binary_vectors,  \* QuantizedStorage.binary_vectors: the flat buffer of bytes
    nodes,           \* HnswIndex.nodes
    entry_point,     \* HnswIndex.entry_point
    max_layer,       \* HnswIndex.max_layer
    result,          \* the last call on the VectorDb and what it returned
    rwlock,          \* the RwLock of the Collection: its writer and its readers
    thr,             \* the threads calling the Collection: where each one is
    collections,     \* Database.collections: name -> the Arc of its Collection
    map_lock,        \* the RwLock around Database.collections
    arcs,            \* the Arc allocations: strong count and the VectorDb inside
    cli,             \* the clients of the Database: position and handle held
    wal,             \* wal.log: its records and how many of them are fsynced
    snapshot,        \* snapshot.bin: the watermark and the image, if there is one
    pdb,             \* the PersistentVectorDb handle: open or not, its records
    workload,        \* the operations logged so far, in order
    matched,         \* the last Filter::matches call and what it returned
    walk,            \* a search_layer_single or search_layer call and its loop state
    locks,           \* the RwLocks around the fields of VectorStorage and HnswIndex
    proc,            \* the threads that share a VectorStorage and an HnswIndex
    metrics,         \* the MetricsRegistry of the server: atomics and history
    tasks            \* the request tasks and the metrics collection task

storageVars == <<vectors, id_to_internal, internal_to_id>>
quantizedVars == <<original_vectors, sq8_vectors, sq8_metadata, binary_vectors>>
indexVars == <<nodes, entry_point, max_layer>>
lockVars == <<rwlock, thr>>
dbVars == <<collections, map_lock, arcs, cli>>
persistVars == <<wal, snapshot, pdb, workload>>
metricVars == <<metrics, tasks>>
moreVars == <<matched, walk, locks, proc, metricVars>>
vars == <<config, vectors, id_to_internal, internal_to_id, original_vectors,
          sq8_vectors, sq8_metadata, binary_vectors, nodes, entry_point,
          max_layer, result, rwlock, thr, collections, map_lock, arcs, cli,
          wal, snapshot, pdb, workload, matched, walk, locks, proc, metrics,
          tasks>>

-----------------------------------------------------------------------------
(* Bounds of the model and the inputs the calls are drawn from.             *)

\* largest level random_level is allowed to draw
MaxLevel == 1
\* largest k of a search
MaxK == 3

\* Config.dimensions of the modelled collection
dimensions == 2

\* stands for f32::MAX: larger than every distance of the model
F32_MAX == 1000000

\* Option<T>: None is the empty sequence and Some(x) the one-element sequence
None == <<>>
Some(x) == <<x>>
unwrap(o) == o[1]

ExternalIds == {"x", "y", "z"}

\* vectors of the configured dimension: pairwise distances 1, 5 and 10,
\* two sign patterns
Vectors == {<<1, 0>>, <<2, 0>>, <<-1, 1>>}
\* vectors one component short and one component long
BadVectors == {<<1>>, <<1, 0, 0>>}

\* HnswConfig::default() and three small configurations in which the
\* per-layer caps and the candidate-list sizes are reached by a few nodes
HnswConfig_default ==
    [m |-> 16, m0 |-> 32, ef_construction |-> 200, ef_search |-> 100]

HnswConfigs ==
    { HnswConfig_default,
      [m |-> 1, m0 |-> 1, ef_construction |-> 1, ef_search |-> 1],
      [m |-> 1, m0 |-> 1, ef_construction |-> 2, ef_search |-> 2],
      [m |-> 1, m0 |-> 2, ef_construction |-> 2, ef_search |-> 1] }

\* the configurations of a collection: a VectorDb (Collection::Standard)
\* with one of the HNSW configurations, or a QuantizedVectorDb
\* (Collection::Quantized) with a quantization type, keep_originals and a
\* rerank_multiplier
DbConfigs ==
    { [kind |-> "VectorDb", hnsw |-> h, quantization |-> "None",
       keep_originals |-> FALSE, rerank_multiplier |-> 3] : h \in HnswConfigs }
    \cup
    { [kind |-> "QuantizedVectorDb", hnsw |-> HnswConfig_default,
       quantization |-> q, keep_originals |-> ko, rerank_multiplier |-> r] :
         q \in {"None", "SQ8", "Binary"}, ko \in BOOLEAN, r \in {1, 3} }

Min(a, b) == IF a <= b THEN a ELSE b
Max(a, b) == IF a >= b THEN a ELSE b

-----------------------------------------------------------------------------
(* DistanceMetric::Euclidean: the squared Euclidean distance.               *)

RECURSIVE SumSq(_, _, _)
SumSq(a, b, i) ==
    IF i > Min(Len(a), Len(b)) THEN 0
    ELSE (a[i] - b[i]) * (a[i] - b[i]) + SumSq(a, b, i + 1)

distance(a, b) == SumSq(a, b, 1)

-----------------------------------------------------------------------------
(* VectorStorage                                                            *)

\* VectorStorage::get: the row of internal_id, None when it is out of range
get(vecs, internal_id) ==
    LET start == internal_id * dimensions
        end == start + dimensions
    IN IF end <= Len(vecs) THEN Some(SubSeq(vecs, start + 1, end)) ELSE None

get_vector_data(vecs, internal_id) == get(vecs, internal_id)

get_internal_id(id) ==
    IF id \in DOMAIN id_to_internal THEN Some(id_to_internal[id]) ELSE None

get_external_id(internal_id) ==
    IF internal_id + 1 \in DOMAIN internal_to_id
    THEN Some(internal_to_id[internal_id + 1]) ELSE None

len == Len(internal_to_id)

\* a variant of VectorStorage::insert that extends the vector data before it
\* looks the id up
StorageInsert_early_extend(s, id, vector) ==
    IF Len(vector) # dimensions
    THEN [st |-> s, status |-> "DimensionMismatch", internal_id |-> None]
    ELSE IF id \in DOMAIN s.id_to_internal
    THEN [st |-> [s EXCEPT !.vectors = @ \o vector],
          status |-> "DuplicateId", internal_id |-> None]
    ELSE [st |-> [vectors |-> s.vectors \o vector,
                  id_to_internal |->
                      [e \in DOMAIN s.id_to_internal \cup {id} |->
                          IF e = id THEN Len(s.internal_to_id) ELSE s.id_to_internal[e]],
                  internal_to_id |-> Append(s.internal_to_id, id)],
          status |-> "Ok",
          internal_id |-> Some(Len(s.internal_to_id))]

\* a variant of VectorStorage::insert without the duplicate check: the map
\* entry of a present id is overwritten
StorageInsert_overwrite(s, id, vector) ==
    IF Len(vector) # dimensions
    THEN [st |-> s, status |-> "DimensionMismatch", internal_id |-> None]
    ELSE [st |-> [vectors |-> s.vectors \o vector,
                  id_to_internal |->
                      [e \in DOMAIN s.id_to_internal \cup {id} |->
                          IF e = id THEN Len(s.internal_to_id) ELSE s.id_to_internal[e]],
                  internal_to_id |-> Append(s.internal_to_id, id)],
          status |-> "Ok",
          internal_id |-> Some(Len(s.internal_to_id))]

\* a variant of VectorStorage::insert that takes the length of the flat
\* vector data, not the number of vectors, as the new InternalId
StorageInsert_flat_len(s, id, vector) ==
    IF Len(vector) # dimensions
    THEN [st |-> s, status |-> "DimensionMismatch", internal_id |-> None]
    ELSE IF id \in DOMAIN s.id_to_internal
    THEN [st |-> s, status |-> "DuplicateId", internal_id |-> None]
    ELSE [st |-> [vectors |-> s.vectors \o vector,
                  id_to_internal |->
                      [e \in DOMAIN s.id_to_internal \cup {id} |->
                          IF e = id THEN Len(s.vectors) ELSE s.id_to_internal[e]],
                  internal_to_id |-> Append(s.internal_to_id, id)],
          status |-> "Ok",
          internal_id |-> Some(Len(s.vectors))]

\* VectorStorage::insert as a function of the storage: the storage after the
\* call and what the call returns
StorageInsert(s, id, vector) ==
    IF Len(vector) # dimensions
    THEN [st |-> s, status |-> "DimensionMismatch", internal_id |-> None]
    ELSE IF id \in DOMAIN s.id_to_internal
    THEN [st |-> s, status |-> "DuplicateId", internal_id |-> None]
    ELSE LET internal_id == Len(s.internal_to_id)
         IN [st |-> [vectors |-> s.vectors \o vector,
                     id_to_internal |->
                         [e \in DOMAIN s.id_to_internal \cup {id} |->
                             IF e = id THEN internal_id ELSE s.id_to_internal[e]],
                     internal_to_id |-> Append(s.internal_to_id, id)],
             status |-> "Ok",
             internal_id |-> Some(internal_id)]

-----------------------------------------------------------------------------
(* Candidate and MaxCandidate, and std::collections::BinaryHeap over them.  *)
(* A candidate is [id, distance]; a heap is the Vec the BinaryHeap keeps,   *)
(* with the root at position 1.                                             *)

Candidate(id, d) == [id |-> id, distance |-> d]

\* a <= b under Ord for Candidate (kind "min": the ordering is reversed, so
\* that the max-heap of the library pops the smallest distance) and under
\* Ord for MaxCandidate (kind "max")
Le(kind, a, b) ==
    IF kind = "min" THEN b.distance <= a.distance ELSE a.distance <= b.distance

\* exchange the elements at the 0-based positions i and j
Swap(data, i, j) ==
    [data EXCEPT ![i + 1] = data[j + 1], ![j + 1] = data[i + 1]]

\* BinaryHeap::sift_up
RECURSIVE sift_up(_, _, _, _)
sift_up(kind, data, start, pos) ==
    IF pos > start
    THEN LET parent == (pos - 1) \div 2
         IN IF Le(kind, data[pos + 1], data[parent + 1])
            THEN data
            ELSE sift_up(kind, Swap(data, pos, parent), start, parent)
    ELSE data

\* the loop of BinaryHeap::sift_down_to_bottom: the hole goes down to a leaf
\* along the greater children; yields the data and the final hole position
RECURSIVE hole_to_bottom(_, _, _)
hole_to_bottom(kind, data, hole) ==
    LET end == Len(data)
        child == 2 * hole + 1
    IN IF end >= 2 /\ child <= end - 2
       THEN LET c == IF Le(kind, data[child + 1], data[child + 2])
                     THEN child + 1 ELSE child
            IN hole_to_bottom(kind, Swap(data, hole, c), c)
       ELSE IF child = end - 1
       THEN [data |-> Swap(data, hole, child), pos |-> child]
       ELSE [data |-> data, pos |-> hole]

\* BinaryHeap::sift_down_to_bottom
sift_down_to_bottom(kind, data, pos) ==
    LET h == hole_to_bottom(kind, data, pos)
    IN sift_up(kind, h.data, pos, h.pos)

\* BinaryHeap::push
push(kind, data, item) == sift_up(kind, Append(data, item), 0, Len(data))

\* BinaryHeap::pop on a non-empty heap: the popped item and the heap left
pop(kind, data) ==
    LET last == data[Len(data)]
        rest == SubSeq(data, 1, Len(data) - 1)
    IN IF rest = <<>>
       THEN [item |-> last, heap |-> rest]
       ELSE [item |-> rest[1],
             heap |-> sift_down_to_bottom(kind, [rest EXCEPT ![1] = last], 0)]

\* results.peek().map(|c| c.distance).unwrap_or(f32::MAX)
peek_distance(data) == IF data = <<>> THEN F32_MAX ELSE data[1].distance

\* slice::sort_by on the distance: a stable sort, equal distances keep the
\* order they arrive in
RECURSIVE InsertSorted(_, _)
InsertSorted(sorted, c) ==
    IF sorted = <<>> THEN <<c>>
    ELSE IF sorted[Len(sorted)].distance <= c.distance
    THEN Append(sorted, c)
    ELSE Append(InsertSorted(SubSeq(sorted, 1, Len(sorted) - 1), c),
                sorted[Len(sorted)])

RECURSIVE sort_by_distance(_)
sort_by_distance(s) ==
    IF s = <<>> THEN <<>>
    ELSE InsertSorted(sort_by_distance(SubSeq(s, 1, Len(s) - 1)), s[Len(s)])

\* iter().take(n)
take(s, n) == SubSeq(s, 1, Min(n, Len(s)))

-----------------------------------------------------------------------------
(* HnswIndex                                                                *)

\* HnswNode::new
HnswNode(id, level) ==
    [id |-> id, max_layer |-> level, neighbors |-> [l \in 1..(level + 1) |-> <<>>]]

\* storage.get_vector_data(id).map(|v| distance(query, &v)).unwrap_or(f32::MAX)
dist_to(vecs, query, id) ==
    LET v == get_vector_data(vecs, id)
    IN IF v = None THEN F32_MAX ELSE distance(query, unwrap(v))

\* a variant of single_pass that moves on to a neighbour that is no
\* farther, too
RECURSIVE single_pass_no_farther(_, _, _, _, _)
single_pass_no_farther(vecs, query, nbrs, i, cur) ==
    IF i > Len(nbrs) THEN cur
    ELSE IF get_vector_data(vecs, nbrs[i]) # None
            /\ distance(query, unwrap(get_vector_data(vecs, nbrs[i]))) <= cur.current_dist
         THEN single_pass_no_farther(vecs, query, nbrs, i + 1,
                  [current |-> nbrs[i],
                   current_dist |-> distance(query, unwrap(get_vector_data(vecs, nbrs[i]))),
                   changed |-> TRUE])
         ELSE single_pass_no_farther(vecs, query, nbrs, i + 1, cur)

\* HnswIndex::search_layer_single: the greedy walk.  One pass of the inner
\* for loop over the neighbours of the node the pass started from
RECURSIVE single_pass(_, _, _, _, _)
single_pass(vecs, query, nbrs, i, cur) ==
    IF i > Len(nbrs) THEN cur
    ELSE LET neighbor_id == nbrs[i]
             nv == get_vector_data(vecs, neighbor_id)
         IN IF nv # None /\ distance(query, unwrap(nv)) < cur.current_dist
            THEN single_pass(vecs, query, nbrs, i + 1,
                     [current |-> neighbor_id,
                      current_dist |-> distance(query, unwrap(nv)),
                      changed |-> TRUE])
            ELSE single_pass(vecs, query, nbrs, i + 1, cur)

\* one round of the outer loop: the walk after the pass over the neighbours
\* of the node it stood on
single_round(ns, vecs, query, layer, cur) ==
    LET node == ns[cur.current + 1]
    IN IF node.max_layer >= layer
       THEN single_pass(vecs, query, node.neighbors[layer + 1], 1,
                        [cur EXCEPT !.changed = FALSE])
       ELSE [cur EXCEPT !.changed = FALSE]

RECURSIVE single_loop(_, _, _, _, _)
single_loop(ns, vecs, query, layer, after) ==
    IF after.changed
    THEN single_loop(ns, vecs, query, layer,
                     single_round(ns, vecs, query, layer, after))
    ELSE after.current

search_layer_single(ns, vecs, query, entry, layer) ==
    single_loop(ns, vecs, query, layer,
        single_round(ns, vecs, query, layer,
            [current |-> entry, current_dist |-> dist_to(vecs, query, entry),
             changed |-> FALSE]))

\* HnswIndex::search_layer.  The state of the loops is the visited set and
\* the two heaps; expand is the inner for loop over one node's neighbours
\* results after "results.push(..); if results.len() > ef { results.pop(); }"
bounded(pushed, ef) == IF Len(pushed) > ef THEN pop("max", pushed).heap ELSE pushed

\* the body of the inner for loop for one neighbour that is new to the
\* visited set and has the stored vector nv
visit(query, ef, neighbor_id, dist, st) ==
    IF dist < peek_distance(st.results) \/ Len(st.results) < ef
    THEN [visited |-> st.visited \cup {neighbor_id},
          candidates |-> push("min", st.candidates, Candidate(neighbor_id, dist)),
          results |-> bounded(push("max", st.results, Candidate(neighbor_id, dist)), ef)]
    ELSE [st EXCEPT !.visited = @ \cup {neighbor_id}]

\* a variant of expand_one that does not look the neighbour up in visited
expand_one_revisiting(vecs, query, ef, neighbor_id, nv, st) ==
    IF nv = None
    THEN [st EXCEPT !.visited = @ \cup {neighbor_id}]
    ELSE visit(query, ef, neighbor_id, distance(query, unwrap(nv)), st)

\* the body of the inner for loop for one neighbour
expand_one(vecs, query, ef, neighbor_id, nv, st) ==
    IF neighbor_id \in st.visited \/ nv = None
    THEN [st EXCEPT !.visited = @ \cup {neighbor_id}]
    ELSE visit(query, ef, neighbor_id, distance(query, unwrap(nv)), st)

RECURSIVE expand(_, _, _, _, _, _)
expand(vecs, query, ef, nbrs, i, st) ==
    IF i > Len(nbrs) THEN st
    ELSE expand(vecs, query, ef, nbrs, i + 1,
                expand_one(vecs, query, ef, nbrs[i],
                           get_vector_data(vecs, nbrs[i]), st))

\* the neighbour list of a node at a layer, empty above the node's max_layer
neighbors_at(node, layer) ==
    IF node.max_layer >= layer THEN node.neighbors[layer + 1] ELSE <<>>

\* the body of the while loop after "candidates.pop()" gave p: done is the
\* break
layer_step(ns, vecs, query, ef, layer, st, p) ==
    IF p.item.distance > peek_distance(st.results)
    THEN [st |-> [st EXCEPT !.candidates = p.heap], done |-> TRUE]
    ELSE [st |-> expand(vecs, query, ef, neighbors_at(ns[p.item.id + 1], layer), 1,
                        [st EXCEPT !.candidates = p.heap]),
          done |-> FALSE]

RECURSIVE layer_loop(_, _, _, _, _, _)
layer_loop(ns, vecs, query, ef, layer, s) ==
    IF s.done \/ s.st.candidates = <<>> THEN s.st
    ELSE layer_loop(ns, vecs, query, ef, layer,
                    layer_step(ns, vecs, query, ef, layer, s.st,
                               pop("min", s.st.candidates)))

\* the visited set and the two heaps before the while loop
search_start(entry, entry_dist) ==
    [st |-> [visited |-> {entry},
             candidates |-> push("min", <<>>, Candidate(entry, entry_dist)),
             results |-> push("max", <<>>, Candidate(entry, entry_dist))],
     done |-> FALSE]

\* a variant of search_layer that returns the results heap as it lies
search_layer_unsorted(ns, vecs, query, entry, ef, layer) ==
    layer_loop(ns, vecs, query, ef, layer,
               search_start(entry, dist_to(vecs, query, entry))).results

search_layer(ns, vecs, query, entry, ef, layer) ==
    sort_by_distance(
        layer_loop(ns, vecs, query, ef, layer,
                   search_start(entry, dist_to(vecs, query, entry))).results)

\* HnswIndex::select_neighbors
select_neighbors(candidates, m) == take(candidates, m)

\* max_connections of a layer: config.m0 at layer 0 and config.m above it
max_connections(layer) == IF layer = 0 THEN config.hnsw.m0 ELSE config.hnsw.m

\* candidates.into_iter().map(|c| c.id).collect()
RECURSIVE ids_of(_)
ids_of(cs) == IF cs = <<>> THEN <<>> ELSE <<cs[1].id>> \o ids_of(Tail(cs))

\* the filter_map of the prune: the entries of a neighbour list that have a
\* stored vector, each with its distance to the pruned node's vector nv
RECURSIVE prune_candidates(_, _, _)
prune_candidates(vecs, nv, list) ==
    IF list = <<>> THEN <<>>
    ELSE LET v == get_vector_data(vecs, list[1])
         IN (IF v = None THEN <<>>
             ELSE <<Candidate(list[1], distance(nv, unwrap(v)))>>)
            \o prune_candidates(vecs, nv, Tail(list))

\* the prune of a neighbour list that has grown over its cap: the cap
\* entries nearest to the node's own vector neighbor_vec
prune(vecs, neighbor_vec, list, cap) ==
    IF neighbor_vec = None THEN list
    ELSE ids_of(take(sort_by_distance(
             prune_candidates(vecs, unwrap(neighbor_vec), list)), cap))

\* a variant of capped that never prunes
capped_unpruned(vecs, neighbor_id, pushed, cap) == pushed

\* a neighbour list after the reverse edge was pushed
capped(vecs, neighbor_id, pushed, cap) ==
    IF Len(pushed) > cap
    THEN prune(vecs, get_vector_data(vecs, neighbor_id), pushed, cap)
    ELSE pushed

\* one round of "Add bidirectional connections": the reverse edge from the
\* selected neighbour to the new node, and the prune of the neighbour's list
\* a variant of add_reverse that links back only neighbours that reach above
\* the layer
add_reverse_above(ns, vecs, neighbor_id, internal_id, layer) ==
    IF ns[neighbor_id + 1].max_layer > layer
    THEN [ns EXCEPT ![neighbor_id + 1].neighbors[layer + 1] =
             capped(vecs, neighbor_id, Append(@, internal_id), max_connections(layer))]
    ELSE ns

add_reverse(ns, vecs, neighbor_id, internal_id, layer) ==
    IF ns[neighbor_id + 1].max_layer >= layer
    THEN [ns EXCEPT ![neighbor_id + 1].neighbors[layer + 1] =
             capped(vecs, neighbor_id, Append(@, internal_id), max_connections(layer))]
    ELSE ns

RECURSIVE add_reverse_all(_, _, _, _, _, _)
add_reverse_all(ns, vecs, selected, i, internal_id, layer) ==
    IF i > Len(selected) THEN ns
    ELSE add_reverse_all(add_reverse(ns, vecs, selected[i].id, internal_id, layer),
                         vecs, selected, i + 1, internal_id, layer)

\* the greedy descent from layer `from` down to layer `to`
RECURSIVE descend(_, _, _, _, _, _)
descend(ns, vecs, query, current_ep, from, to) ==
    IF from < to THEN current_ep
    ELSE descend(ns, vecs, query,
                 search_layer_single(ns, vecs, query, current_ep, from),
                 from - 1, to)

\* the body of the connect loop of HnswIndex::insert at one layer: the nodes
\* and the entry for the next layer
\* the edges of one layer, given the neighbours selected for the new node
connect_selected(ns, vecs, internal_id, current_ep, layer, selected) ==
    [nodes |-> add_reverse_all(
                   [ns EXCEPT ![internal_id + 1].neighbors[layer + 1] = ids_of(selected)],
                   vecs, selected, 1, internal_id, layer),
     current_ep |-> IF selected # <<>> THEN selected[1].id ELSE current_ep]

connect_layer(c, vecs, internal_id, vector, layer) ==
    connect_selected(c.nodes, vecs, internal_id, c.current_ep, layer,
        select_neighbors(
            search_layer(c.nodes, vecs, vector, c.current_ep,
                         config.hnsw.ef_construction, layer),
            max_connections(layer)))

\* the connect loop from `layer` down to layer 0; c is the nodes and the
\* entry the loop has reached
RECURSIVE connect(_, _, _, _, _)
connect(c, vecs, internal_id, vector, layer) ==
    IF layer < 0 THEN c.nodes
    ELSE connect(connect_layer(c, vecs, internal_id, vector, layer),
                 vecs, internal_id, vector, layer - 1)

\* HnswIndex::insert with the level random_level drew: the index after it
\* the nodes after the two loops of HnswIndex::insert, `pushed` being the
\* nodes with the new node appended
linked(pushed, ix, vecs, internal_id, vector, node_level) ==
    connect([nodes |-> pushed,
             current_ep |-> descend(pushed, vecs, vector, unwrap(ix.entry_point),
                                    ix.max_layer, node_level + 1)],
            vecs, internal_id, vector, Min(node_level, ix.max_layer))

\* a variant of update_entry_point that keeps the old entry point
update_entry_point_kept(ix, internal_id, node_level) ==
    [entry_point |-> ix.entry_point,
     max_layer |-> IF node_level > ix.max_layer THEN node_level ELSE ix.max_layer]

\* "if node_level > current_max_layer": the new node becomes the entry point
update_entry_point(ix, internal_id, node_level) ==
    IF node_level > ix.max_layer
    THEN [entry_point |-> Some(internal_id), max_layer |-> node_level]
    ELSE [entry_point |-> ix.entry_point, max_layer |-> ix.max_layer]

\* the index of the given nodes with the entry point and max_layer of e
with_entry(ns, e) ==
    [nodes |-> ns, entry_point |-> e.entry_point, max_layer |-> e.max_layer]

IndexInsert(ix, vecs, internal_id, vector, node_level) ==
    IF ix.entry_point = None
    THEN [nodes |-> Append(ix.nodes, HnswNode(internal_id, node_level)),
          entry_point |-> Some(internal_id),
          max_layer |-> node_level]
    ELSE with_entry(linked(Append(ix.nodes, HnswNode(internal_id, node_level)),
                           ix, vecs, internal_id, vector, node_level),
                    update_entry_point(ix, internal_id, node_level))

\* a variant of HnswIndex::search that answers an empty list on the empty
\* index
IndexSearch_empty_ok(ix, vecs, query, k) ==
    IF ix.entry_point = None
    THEN [status |-> "Ok", items |-> <<>>]
    ELSE [status |-> "Ok",
          items |-> take(search_layer(ix.nodes, vecs, query,
                                      descend(ix.nodes, vecs, query,
                                              unwrap(ix.entry_point), ix.max_layer, 1),
                                      Max(config.hnsw.ef_search, k), 0),
                         k)]

\* HnswIndex::search: the status and the (InternalId, distance) pairs
IndexSearch(ix, vecs, query, k) ==
    IF ix.entry_point = None
    THEN [status |-> "EmptyIndex", items |-> <<>>]
    ELSE [status |-> "Ok",
          items |-> take(search_layer(ix.nodes, vecs, query,
                                      descend(ix.nodes, vecs, query,
                                              unwrap(ix.entry_point), ix.max_layer, 1),
                                      Max(config.hnsw.ef_search, k), 0),
                         k)]

-----------------------------------------------------------------------------
(* BinaryQuantizer and SQ8Quantizer                                         *)

RECURSIVE pow2(_)
pow2(n) == IF n = 0 THEN 1 ELSE 2 * pow2(n - 1)

\* BinaryQuantizer::byte_size: ceil(D / 8)
byte_size == (dimensions + 7) \div 8

\* the sign bit of a component: >= 0 is 1
sign_bit(x) == IF x >= 0 THEN 1 ELSE 0

\* the byte with 0-based index b of the packed sign bits of v
RECURSIVE pack_byte(_, _, _)
pack_byte(v, b, j) ==
    IF j > 7 \/ 8 * b + j >= Len(v) THEN 0
    ELSE sign_bit(v[8 * b + j + 1]) * pow2(j) + pack_byte(v, b, j + 1)

\* BinaryQuantizer::quantize
binary_quantize(v) == [b \in 1..byte_size |-> pack_byte(v, b - 1, 0)]

\* the number of bit positions below n in which x and y differ
RECURSIVE diff_bits(_, _, _)
diff_bits(x, y, n) ==
    IF n = 0 THEN 0
    ELSE (IF x % 2 # y % 2 THEN 1 ELSE 0) + diff_bits(x \div 2, y \div 2, n - 1)

\* BinaryQuantizer::hamming_distance
RECURSIVE hamming_distance(_, _)
hamming_distance(a, b) ==
    IF a = <<>> \/ b = <<>> THEN 0
    ELSE diff_bits(a[1], b[1], 8) + hamming_distance(Tail(a), Tail(b))

\* BinaryQuantizer::hamming_to_cosine: hamming / D, kept in units of 1 / D
hamming_to_cosine(hamming) == hamming

RECURSIVE SeqMin(_)
SeqMin(v) == IF Len(v) = 1 THEN v[1] ELSE Min(v[1], SeqMin(Tail(v)))
RECURSIVE SeqMax(_)
SeqMax(v) == IF Len(v) = 1 THEN v[1] ELSE Max(v[1], SeqMax(Tail(v)))

\* the code of one component: round(255 (x - min) / (max - min)) in 0..255
sq8_code(x, lo, hi) ==
    IF hi = lo THEN 0
    ELSE Max(0, Min(255, (2 * 255 * (x - lo) + (hi - lo)) \div (2 * (hi - lo))))

\* SQ8Quantizer::quantize: the codes and the per-vector (min, max)
sq8_quantize(v) ==
    LET lo == SeqMin(v)
        hi == SeqMax(v)
    IN [codes |-> [i \in 1..Len(v) |-> sq8_code(v[i], lo, hi)],
        meta |-> [min |-> lo, max |-> hi]]

\* SQ8Quantizer::asymmetric_distance: the query against the decoded vector;
\* the decoded component is min + code (max - min) / 255, the sum is taken
\* over 255 times the components and divided by 255 * 255 at the end
RECURSIVE asym_sum(_, _, _, _)
asym_sum(query, codes, meta, i) ==
    IF i > Min(Len(query), Len(codes)) THEN 0
    ELSE LET d == 255 * query[i] - (255 * meta.min + codes[i] * (meta.max - meta.min))
         IN d * d + asym_sum(query, codes, meta, i + 1)

asymmetric_distance(query, codes, meta) ==
    asym_sum(query, codes, meta, 1) \div (255 * 255)

-----------------------------------------------------------------------------
(* QuantizedStorage                                                         *)

qstorage == [id_to_internal |-> id_to_internal, internal_to_id |-> internal_to_id,
             original_vectors |-> original_vectors, sq8_vectors |-> sq8_vectors,
             sq8_metadata |-> sq8_metadata, binary_vectors |-> binary_vectors]

\* QuantizedStorage::new: original_vectors is Some(empty) when originals are
\* kept or the quantization is None
new_original_vectors(cfg) ==
    IF cfg.keep_originals \/ cfg.quantization = "None" THEN Some(<<>>) ELSE None

\* vecs.extend_from_slice(vector) under "if let Some(ref mut vecs)"
extend_originals(originals, vector) ==
    IF originals = None THEN None ELSE Some(unwrap(originals) \o vector)

\* QuantizedStorage::insert as a function of the storage
QuantizedStorageInsert(s, id, vector) ==
    IF Len(vector) # dimensions
    THEN [st |-> s, status |-> "DimensionMismatch", internal_id |-> None]
    ELSE IF id \in DOMAIN s.id_to_internal
    THEN [st |-> s, status |-> "DuplicateId", internal_id |-> None]
    ELSE LET internal_id == Len(s.internal_to_id)
             q == config.quantization
             stored == IF q = "None"
                       THEN extend_originals(s.original_vectors, vector)
                       ELSE s.original_vectors
             kept == IF config.keep_originals /\ q # "None"
                     THEN extend_originals(stored, vector) ELSE stored
         IN [st |-> [id_to_internal |->
                         [e \in DOMAIN s.id_to_internal \cup {id} |->
                             IF e = id THEN internal_id ELSE s.id_to_internal[e]],
                     internal_to_id |-> Append(s.internal_to_id, id),
                     original_vectors |-> kept,
                     sq8_vectors |->
                         IF q = "SQ8" THEN s.sq8_vectors \o sq8_quantize(vector).codes
                         ELSE s.sq8_vectors,
                     sq8_metadata |->
                         IF q = "SQ8" THEN Append(s.sq8_metadata, sq8_quantize(vector).meta)
                         ELSE s.sq8_metadata,
                     binary_vectors |->
                         IF q = "Binary" THEN s.binary_vectors \o binary_quantize(vector)
                         ELSE s.binary_vectors],
             status |-> "Ok",
             internal_id |-> Some(internal_id)]

\* QuantizedStorage::distance
storage_distance(query, internal_id) ==
    IF config.quantization = "None"
    THEN LET start == internal_id * dimensions
             end == start + dimensions
         IN IF original_vectors # None /\ end <= Len(unwrap(original_vectors))
            THEN Some(distance(query, SubSeq(unwrap(original_vectors), start + 1, end)))
            ELSE None
    ELSE IF config.quantization = "SQ8"
    THEN LET start == internal_id * dimensions
             end == start + dimensions
         IN IF internal_id >= Len(sq8_metadata) \/ end > Len(sq8_vectors)
            THEN None
            ELSE Some(asymmetric_distance(query, SubSeq(sq8_vectors, start + 1, end),
                                          sq8_metadata[internal_id + 1]))
    ELSE LET start == internal_id * byte_size
             end == start + byte_size
         IN IF end > Len(binary_vectors) THEN None
            ELSE Some(hamming_to_cosine(
                     hamming_distance(binary_quantize(query),
                                      SubSeq(binary_vectors, start + 1, end))))

\* QuantizedStorage::get_original
get_original(internal_id) ==
    LET start == internal_id * dimensions
        end == start + dimensions
    IN IF original_vectors # None /\ end <= Len(unwrap(original_vectors))
       THEN Some(SubSeq(unwrap(original_vectors), start + 1, end))
       ELSE None

-----------------------------------------------------------------------------
(* QuantizedVectorDb::search                                                *)

\* the filter_map over all_internal_ids: each id from i on with its distance
\* under the quantized representation
RECURSIVE all_candidates(_, _)
all_candidates(query, i) ==
    IF i >= Len(internal_to_id) THEN <<>>
    ELSE LET d == storage_distance(query, i)
         IN (IF d = None THEN <<>> ELSE <<Candidate(i, unwrap(d))>>)
            \o all_candidates(query, i + 1)

\* the filter_map of the rerank: the exact distance to each original
RECURSIVE rerank(_, _)
rerank(query, top) ==
    IF top = <<>> THEN <<>>
    ELSE LET orig == get_original(top[1].id)
         IN (IF orig = None THEN <<>>
             ELSE <<Candidate(top[1].id, distance(query, unwrap(orig)))>>)
            \o rerank(query, Tail(top))

\* a variant of top_results that re-ranks every candidate
top_results_all(query, k, candidates) ==
    IF config.keep_originals /\ config.quantization # "None"
    THEN take(sort_by_distance(rerank(query, candidates)), k)
    ELSE take(candidates, k)

\* a variant of top_results that keeps the last k of the re-ranked list
top_results_last(query, k, candidates) ==
    IF config.keep_originals /\ config.quantization # "None"
    THEN SubSeq(sort_by_distance(
                    rerank(query, take(candidates, k * config.rerank_multiplier))),
                Max(1, Min(Len(candidates), k * config.rerank_multiplier) - k + 1),
                Min(Len(candidates), k * config.rerank_multiplier))
    ELSE take(candidates, k)

\* the re-rank or the plain truncation of the sorted candidates
top_results(query, k, candidates) ==
    IF config.keep_originals /\ config.quantization # "None"
    THEN take(sort_by_distance(
                  rerank(query, take(candidates, k * config.rerank_multiplier))), k)
    ELSE take(candidates, k)

\* the (InternalId, distance) pairs QuantizedVectorDb::search maps to
\* external ids
quantized_results(query, k) ==
    top_results(query, k, sort_by_distance(all_candidates(query, 0)))

-----------------------------------------------------------------------------
(* VectorDb, QuantizedVectorDb and Collection                               *)

storage == [vectors |-> vectors, id_to_internal |-> id_to_internal,
            internal_to_id |-> internal_to_id]
index == [nodes |-> nodes, entry_point |-> entry_point, max_layer |-> max_layer]

\* the filter_map of the two search methods: internal ids back to external
RECURSIVE mapped(_)
mapped(items) ==
    IF items = <<>> THEN <<>>
    ELSE LET ext == get_external_id(items[1].id)
         IN (IF ext = None THEN <<>>
             ELSE <<[id |-> unwrap(ext), distance |-> items[1].distance]>>)
            \o mapped(Tail(items))

\* VectorDb::search as a function of the current state
\* the Ok of VectorDb::search: the index's results mapped; its error as is
mapped_result(r) ==
    IF r.status # "Ok" THEN r ELSE [status |-> "Ok", items |-> mapped(r.items)]

\* a variant of VectorDb::search without the dimension check
VectorDbSearch_unchecked(query, k) ==
    mapped_result(IndexSearch(index, vectors, query, k))

VectorDbSearch(query, k) ==
    IF Len(query) # dimensions
    THEN [status |-> "DimensionMismatch", items |-> <<>>]
    ELSE mapped_result(IndexSearch(index, vectors, query, k))

\* QuantizedVectorDb::search as a function of the current state
QuantizedVectorDbSearch(query, k) ==
    IF Len(query) # dimensions
    THEN [status |-> "DimensionMismatch", items |-> <<>>]
    ELSE IF len = 0
    THEN [status |-> "EmptyIndex", items |-> <<>>]
    ELSE [status |-> "Ok", items |-> mapped(quantized_results(query, k))]

\* Collection::search
CollectionSearch(query, k) ==
    IF config.kind = "VectorDb" THEN VectorDbSearch(query, k)
    ELSE QuantizedVectorDbSearch(query, k)

\* no call is outstanding: the caller has taken the last return value
Idle == [op |-> "idle", id |-> "", vector |-> <<>>, k |-> 0,
         status |-> "Ok", items |-> <<>>]

\* the threads that call one Collection at the same time
NumThreads == 2
Threads == 1..NumThreads

\* the RwLock with no holder
Unlocked == [writer |-> None, readers |-> {}]

\* the fields of VectorStorage and of HnswIndex that sit in an RwLock each
LockNames == {"id_to_internal", "vectors", "internal_to_id", "nodes", "entry_point", "max_layer"}

\* MetricsRegistry::new
MetricsRegistry_new ==
    [history |-> <<>>, current_reads |-> 0, current_writes |-> 0,
     total_latency_us |-> 0, latency_count |-> 0]

\* no request is being recorded and the collection task is not spawned yet;
\* counted is the requests whose latency_count increment the collector has
\* not swapped out yet, with the sum of their latencies, and windows has, for
\* every snapshot of the history, the requests counted in its window
NoRequests == [us |-> 0, n |-> 0]
IdleTasks ==
    [requests |-> [t \in Threads |-> [pc |-> "idle", method |-> "", latency_us |-> 0]],
     collector |-> [pc |-> "start", reads |-> 0, writes |-> 0, count |-> 0,
                    total_lat_us |-> 0, window |-> NoRequests],
     counted |-> NoRequests, windows |-> <<>>, made |-> 0, ticks |-> 0]

\* a thread that shares the storage and the index, outside every call;
\* held is the number of guards of its call it has taken
IdleProc == [op |-> "idle", held |-> 0, id |-> "", vector |-> <<>>, internal_id |-> None,
             status |-> "Ok", items |-> <<>>]

\* a thread outside every call
IdleThread == [pc |-> "idle", id |-> "", vector |-> <<>>, k |-> 0, level |-> 0,
               internal_id |-> 0, status |-> "Ok", items |-> <<>>]

\* a client of the Database that holds the handle h and is outside every call
IdleClient(h) == [pc |-> "idle", name |-> "", handle |-> h, id |-> "",
                  status |-> "Ok", items |-> <<>>]

\* VectorDb::new or QuantizedVectorDb::new, with nothing else started
Created ==
    /\ config \in DbConfigs
    /\ vectors = <<>>
    /\ id_to_internal = [e \in {} |-> 0]
    /\ internal_to_id = <<>>
    /\ original_vectors =
           IF config.kind = "VectorDb" THEN None ELSE new_original_vectors(config)
    /\ sq8_vectors = <<>>
    /\ sq8_metadata = <<>>
    /\ binary_vectors = <<>>
    /\ nodes = <<>>
    /\ entry_point = None
    /\ max_layer = 0
    /\ result = Idle
    /\ rwlock = Unlocked
    /\ thr = [t \in Threads |-> IdleThread]
    /\ collections = [n \in {} |-> 0]
    /\ map_lock = Unlocked
    /\ arcs = <<>>
    /\ cli = [t \in Threads |-> IdleClient(None)]
    /\ wal = [records |-> <<>>, synced |-> 0]
    /\ snapshot = None
    /\ pdb = [open |-> FALSE, state |-> <<>>, seq |-> 0, pc |-> "idle", status |-> "Ok",
              sync_writes |-> FALSE, clean |-> TRUE]
    /\ workload = <<>>
    /\ matched = None

\* no threads share the storage and the index of the collection
NoThreads == locks = None /\ proc = None

\* threads share them: every lock is free and every thread is idle
SharedFields ==
    /\ locks = [l \in LockNames |-> Unlocked]
    /\ proc = [t \in Threads |-> IdleProc]

\* no server is started
NoServer == metrics = None /\ tasks = None

\* the server is started: MetricsRegistry::new, no request yet
Serving == metrics = MetricsRegistry_new /\ tasks = IdleTasks

\* no call on a graph of its own is under way
Init == Created /\ walk = None /\ NoThreads /\ NoServer

\* VectorDb::insert(id, vector): the dimension check, storage.insert, then
\* index.insert with the level node_level drawn by random_level
\* the index becomes ix
SetIndex(ix) ==
    /\ nodes' = ix.nodes
    /\ entry_point' = ix.entry_point
    /\ max_layer' = ix.max_layer

\* what an insert returns to the caller
Returned(id, vector, status) ==
    result' = [op |-> "insert", id |-> id, vector |-> vector, k |-> 0,
               status |-> status, items |-> <<>>]

\* a variant of VectorDbInserted that calls index.insert whatever
\* storage.insert returned
VectorDbInserted_always_indexed(s, id, vector, node_level) ==
    /\ Returned(id, vector, s.status)
    /\ vectors' = s.st.vectors
    /\ id_to_internal' = s.st.id_to_internal
    /\ internal_to_id' = s.st.internal_to_id
    /\ SetIndex(IndexInsert(index, s.st.vectors, Len(internal_to_id), vector, node_level))

\* the rest of VectorDb::insert after the dimension check, s being what
\* storage.insert returned
VectorDbInserted(s, id, vector, node_level) ==
    /\ Returned(id, vector, s.status)
    /\ vectors' = s.st.vectors
    /\ id_to_internal' = s.st.id_to_internal
    /\ internal_to_id' = s.st.internal_to_id
    /\ IF s.status = "Ok"
       THEN SetIndex(IndexInsert(index, s.st.vectors, unwrap(s.internal_id),
                                 vector, node_level))
       ELSE UNCHANGED indexVars

VectorDbInsert(id, vector, node_level) ==
    /\ IF Len(vector) # dimensions
       THEN /\ Returned(id, vector, "DimensionMismatch")
            /\ UNCHANGED <<storageVars, indexVars>>
       ELSE VectorDbInserted(StorageInsert(storage, id, vector), id, vector, node_level)
    /\ UNCHANGED <<config, quantizedVars>>

\* QuantizedVectorDb::insert(id, vector): the dimension check, storage.insert
\* the rest of QuantizedVectorDb::insert after the dimension check, s
\* being what storage.insert returned
QuantizedVectorDbInserted(s, id, vector) ==
    /\ Returned(id, vector, s.status)
    /\ id_to_internal' = s.st.id_to_internal
    /\ internal_to_id' = s.st.internal_to_id
    /\ original_vectors' = s.st.original_vectors
    /\ sq8_vectors' = s.st.sq8_vectors
    /\ sq8_metadata' = s.st.sq8_metadata
    /\ binary_vectors' = s.st.binary_vectors

QuantizedVectorDbInsert(id, vector) ==
    /\ IF Len(vector) # dimensions
       THEN /\ Returned(id, vector, "DimensionMismatch")
            /\ UNCHANGED <<id_to_internal, internal_to_id, quantizedVars>>
       ELSE QuantizedVectorDbInserted(QuantizedStorageInsert(qstorage, id, vector),
                                      id, vector)
    /\ UNCHANGED <<config, vectors, indexVars>>

\* Collection::insert
Insert(id, vector, node_level) ==
    /\ result = Idle
    /\ IF config.kind = "VectorDb"
       THEN VectorDbInsert(id, vector, node_level)
       ELSE QuantizedVectorDbInsert(id, vector)
    /\ UNCHANGED <<lockVars, dbVars, persistVars, moreVars>>

\* Collection::search
\* what a search returns to the caller
Answered(query, k, r) ==
    result' = [op |-> "search", id |-> "", vector |-> query, k |-> k,
               status |-> r.status, items |-> r.items]

Search(query, k) ==
    /\ result = Idle
    /\ Answered(query, k, CollectionSearch(query, k))
    /\ UNCHANGED <<config, storageVars, quantizedVars, indexVars, lockVars, dbVars, persistVars, moreVars>>

\* the levels random_level may draw; a QuantizedVectorDb draws none
Levels == IF config.kind = "VectorDb" THEN 0..MaxLevel ELSE {0}

DoInsert == \E id \in ExternalIds, vector \in Vectors \cup BadVectors,
               node_level \in Levels : Insert(id, vector, node_level)

DoSearch == \E query \in Vectors \cup BadVectors, k \in 0..MaxK : Search(query, k)

\* the caller takes the return value of its call; insert takes &mut self
\* (and Collection::insert the write lock), so the next call starts after
\* the last one has returned
Return ==
    /\ result # Idle
    /\ result' = Idle
    /\ UNCHANGED <<config, storageVars, quantizedVars, indexVars, lockVars, dbVars, persistVars, moreVars>>

Next == DoInsert \/ DoSearch \/ Return

Spec == Init /\ [][Next]_vars

-----------------------------------------------------------------------------
(* Threads on one Collection: Collection::insert under db.write() and       *)
(* Collection::search under db.read(). A thread takes the lock, runs the    *)
(* call in the steps the code makes it in, and drops the guard on return.   *)

\* a variant of can_write that waits for the writer only
can_write_beside_readers(lock) == lock.writer = None

\* RwLock::write returns when no thread holds the lock
can_write(lock) == lock.writer = None /\ lock.readers = {}

\* RwLock::read returns when no writer holds the lock
can_read(lock) == lock.writer = None

\* thread t is at pc with the rest of its record as given
At(t, pc, a) == thr' = [thr EXCEPT ![t] = [a EXCEPT !.pc = pc]]

\* Collection::insert, db.write(): t takes the lock as writer
LockWrite(t, id, vector, node_level) ==
    /\ thr[t].pc = "idle"
    /\ can_write(rwlock)
    /\ rwlock' = [rwlock EXCEPT !.writer = Some(t)]
    /\ At(t, "insert", [IdleThread EXCEPT !.id = id, !.vector = vector,
                                          !.level = node_level])
    /\ UNCHANGED <<config, storageVars, quantizedVars, indexVars, result, dbVars, persistVars, moreVars>>

\* storage.insert has returned r to thread t: on Ok a VectorDb goes on to
\* index.insert, every other case returns
Stored(t, r) ==
    IF r.status = "Ok" /\ config.kind = "VectorDb"
    THEN At(t, "index", [thr[t] EXCEPT !.internal_id = unwrap(r.internal_id)])
    ELSE At(t, "unlock", [thr[t] EXCEPT !.status = r.status])

\* VectorDb::insert up to the return of storage.insert
VectorDbStore(t, r) ==
    /\ Stored(t, r)
    /\ vectors' = r.st.vectors
    /\ id_to_internal' = r.st.id_to_internal
    /\ internal_to_id' = r.st.internal_to_id
    /\ UNCHANGED quantizedVars

\* QuantizedVectorDb::insert up to the return of storage.insert
QuantizedVectorDbStore(t, r) ==
    /\ Stored(t, r)
    /\ id_to_internal' = r.st.id_to_internal
    /\ internal_to_id' = r.st.internal_to_id
    /\ original_vectors' = r.st.original_vectors
    /\ sq8_vectors' = r.st.sq8_vectors
    /\ sq8_metadata' = r.st.sq8_metadata
    /\ binary_vectors' = r.st.binary_vectors
    /\ UNCHANGED vectors

\* the dimension check and storage.insert of the insert thread t is in
Store(t) ==
    /\ thr[t].pc = "insert"
    /\ IF Len(thr[t].vector) # dimensions
       THEN /\ At(t, "unlock", [thr[t] EXCEPT !.status = "DimensionMismatch"])
            /\ UNCHANGED <<storageVars, quantizedVars>>
       ELSE IF config.kind = "VectorDb"
       THEN VectorDbStore(t, StorageInsert(storage, thr[t].id, thr[t].vector))
       ELSE QuantizedVectorDbStore(t,
                QuantizedStorageInsert(qstorage, thr[t].id, thr[t].vector))
    /\ UNCHANGED <<config, indexVars, result, rwlock, dbVars, persistVars, moreVars>>

\* self.index.insert of the VectorDb::insert thread t is in
IndexStep(t) ==
    /\ thr[t].pc = "index"
    /\ SetIndex(IndexInsert(index, vectors, thr[t].internal_id, thr[t].vector,
                            thr[t].level))
    /\ At(t, "unlock", thr[t])
    /\ UNCHANGED <<config, storageVars, quantizedVars, result, rwlock, dbVars, persistVars, moreVars>>

\* Collection::search, db.read(): t joins the readers
LockRead(t, query, k) ==
    /\ thr[t].pc = "idle"
    /\ can_read(rwlock)
    /\ rwlock' = [rwlock EXCEPT !.readers = @ \cup {t}]
    /\ At(t, "search", [IdleThread EXCEPT !.vector = query, !.k = k])
    /\ UNCHANGED <<config, storageVars, quantizedVars, indexVars, result, dbVars, persistVars, moreVars>>

\* thread t has the answer r of its search
Found(t, r) == At(t, "unlock", [thr[t] EXCEPT !.status = r.status, !.items = r.items])

\* the search of thread t under the read guard
SearchStep(t) ==
    /\ thr[t].pc = "search"
    /\ Found(t, CollectionSearch(thr[t].vector, thr[t].k))
    /\ UNCHANGED <<config, storageVars, quantizedVars, indexVars, result, rwlock, dbVars, persistVars, moreVars>>

\* the guard of thread t is dropped as its call returns
Unlock(t) ==
    /\ thr[t].pc = "unlock"
    /\ rwlock' = [writer |-> IF rwlock.writer = Some(t) THEN None ELSE rwlock.writer,
                  readers |-> rwlock.readers \ {t}]
    /\ thr' = [thr EXCEPT ![t] = IdleThread]
    /\ UNCHANGED <<config, storageVars, quantizedVars, indexVars, result, dbVars, persistVars, moreVars>>

\* the configurations of the collection the threads share
SharedConfigs ==
    {c \in DbConfigs :
        \/ c.kind = "VectorDb" /\ c.hnsw.m0 <= 2
        \/ c.kind = "QuantizedVectorDb" /\ c.quantization = "SQ8"
              /\ c.keep_originals /\ c.rerank_multiplier = 3}

SharedInit == Init /\ config \in SharedConfigs

\* what the threads insert and search for: two ids, two vectors of the
\* configured dimension and one that is short
SharedIds == {"x", "y"}
SharedVectors == {<<1, 0>>, <<-1, 1>>}

SharedNext ==
    \E t \in Threads :
        \/ \E id \in SharedIds, vector \in SharedVectors \cup {<<1>>}, node_level \in Levels :
               LockWrite(t, id, vector, node_level)
        \/ Store(t)
        \/ IndexStep(t)
        \/ \E query \in SharedVectors : LockRead(t, query, MaxK)
        \/ SearchStep(t)
        \/ Unlock(t)

SharedSpec == SharedInit /\ [][SharedNext]_vars

-----------------------------------------------------------------------------
(* The Database: the map of names under its RwLock, the collections behind  *)
(* Arcs, and clients that create, delete and get collections and call the   *)
(* collection a handle refers to. A collection is the record of the         *)
(* VectorDb's storage and index; its own lock makes each call on it one     *)
(* step here.                                                               *)

\* what the Database's clients leave alone
collectionVars == <<config, storageVars, quantizedVars, indexVars, result, lockVars>>

\* the names the clients use
Names == {"a", "b"}
\* the number of collections created in a behaviour
MaxArcs == 2

\* VectorDb::new as a value
NewVectorDb == [vectors |-> <<>>, id_to_internal |-> [e \in {} |-> 0],
                internal_to_id |-> <<>>, nodes |-> <<>>, entry_point |-> None,
                max_layer |-> 0]

\* VectorDb::insert on the VectorDb c after storage.insert returned r
InsertedOn(c, r, vector, node_level, ix) ==
    IF r.status # "Ok" THEN [data |-> c, status |-> r.status]
    ELSE [data |-> [vectors |-> r.st.vectors,
                    id_to_internal |-> r.st.id_to_internal,
                    internal_to_id |-> r.st.internal_to_id,
                    nodes |-> ix.nodes, entry_point |-> ix.entry_point,
                    max_layer |-> ix.max_layer],
          status |-> "Ok"]

\* VectorDb::insert on the VectorDb c: the VectorDb after the call and the
\* status returned
VectorDbInsertOn(c, id, vector, node_level, r) ==
    IF Len(vector) # dimensions
    THEN [data |-> c, status |-> "DimensionMismatch"]
    ELSE InsertedOn(c, r, vector, node_level,
             IF r.status = "Ok"
             THEN IndexInsert(c, r.st.vectors, unwrap(r.internal_id), vector, node_level)
             ELSE c)

\* the filter_map of VectorDb::search with the given internal_to_id
RECURSIVE mapped_by(_, _)
mapped_by(to_id, items) ==
    IF items = <<>> THEN <<>>
    ELSE (IF items[1].id + 1 \in DOMAIN to_id
          THEN <<[id |-> to_id[items[1].id + 1], distance |-> items[1].distance]>>
          ELSE <<>>)
         \o mapped_by(to_id, Tail(items))

\* VectorDb::search on the VectorDb c, r being what index.search returned
VectorDbSearchOn(c, query, r) ==
    IF Len(query) # dimensions THEN [status |-> "DimensionMismatch", items |-> <<>>]
    ELSE IF r.status # "Ok" THEN r
    ELSE [status |-> "Ok", items |-> mapped_by(c.internal_to_id, r.items)]

\* a variant of drop_arc that frees the collection with every drop
drop_arc_freeing(heap, o) == [heap EXCEPT ![o] = [strong |-> 0, data |-> None]]

\* Drop for Arc: the strong count falls, and the last drop frees the
\* collection
drop_arc(heap, o) ==
    [heap EXCEPT ![o] = IF @.strong = 1 THEN [strong |-> 0, data |-> None]
                        ELSE [@ EXCEPT !.strong = @ - 1]]

\* a variant of lock_kind in which create_collection takes the read lock
lock_kind_shared(op) == IF op = "delete" THEN "write" ELSE "read"

\* the lock a Database method takes on the map
lock_kind(op) == IF op \in {"get", "list"} THEN "read" ELSE "write"

\* client t is at pc with the rest of its record as given
ClientAt(t, pc, c) == cli' = [cli EXCEPT ![t] = [c EXCEPT !.pc = pc]]

\* create_collection, delete_collection, get_collection(name) or
\* list_collections by client t: self.collections.write() or .read(). A
\* client that holds a handle uses it or drops it before it calls the
\* Database again.
DbLock(t, op, name) ==
    /\ cli[t].pc = "idle" /\ cli[t].handle = None
    /\ op = "create" => Len(arcs) < MaxArcs
    /\ IF lock_kind(op) = "write"
       THEN can_write(map_lock) /\ map_lock' = [map_lock EXCEPT !.writer = Some(t)]
       ELSE can_read(map_lock) /\ map_lock' = [map_lock EXCEPT !.readers = @ \cup {t}]
    /\ ClientAt(t, op, [cli[t] EXCEPT !.name = name])
    /\ UNCHANGED <<collections, arcs>>
    /\ UNCHANGED <<collectionVars, persistVars, moreVars>>

\* create_collection: contains_key
CreateCheck(t) ==
    /\ cli[t].pc = "create"
    /\ IF cli[t].name \in DOMAIN collections
       THEN ClientAt(t, "unlock", [cli[t] EXCEPT !.status = "DuplicateCollection"])
       ELSE ClientAt(t, "insert", cli[t])
    /\ UNCHANGED <<collections, arcs, map_lock>>
    /\ UNCHANGED <<collectionVars, persistVars, moreVars>>

\* create_collection: VectorDb::new, Arc::new and collections.insert, which
\* drops the value the name had
CreateInsert(t) ==
    /\ cli[t].pc = "insert"
    /\ Len(arcs) < MaxArcs
    /\ arcs' = Append(IF cli[t].name \in DOMAIN collections
                      THEN drop_arc(arcs, collections[cli[t].name]) ELSE arcs,
                      [strong |-> 1, data |-> Some(NewVectorDb)])
    /\ collections' = [n \in DOMAIN collections \cup {cli[t].name} |->
                          IF n = cli[t].name THEN Len(arcs) + 1 ELSE collections[n]]
    /\ ClientAt(t, "unlock", cli[t])
    /\ UNCHANGED map_lock
    /\ UNCHANGED <<collectionVars, persistVars, moreVars>>

\* delete_collection: collections.remove(name) and the drop of its value
DeleteRemove(t) ==
    /\ cli[t].pc = "delete"
    /\ IF cli[t].name \in DOMAIN collections
       THEN /\ collections' = [n \in DOMAIN collections \ {cli[t].name} |-> collections[n]]
            /\ arcs' = drop_arc(arcs, collections[cli[t].name])
            /\ ClientAt(t, "unlock", cli[t])
       ELSE /\ ClientAt(t, "unlock", [cli[t] EXCEPT !.status = "CollectionNotFound"])
            /\ UNCHANGED <<collections, arcs>>
    /\ UNCHANGED map_lock
    /\ UNCHANGED <<collectionVars, persistVars, moreVars>>

\* get_collection: collections.get(name).cloned()
GetClone(t) ==
    /\ cli[t].pc = "get"
    /\ IF cli[t].name \in DOMAIN collections
       THEN /\ arcs' = [arcs EXCEPT ![collections[cli[t].name]].strong = @ + 1]
            /\ ClientAt(t, "unlock", [cli[t] EXCEPT !.handle = Some(collections[cli[t].name])])
       ELSE /\ ClientAt(t, "unlock", [cli[t] EXCEPT !.status = "CollectionNotFound"])
            /\ UNCHANGED arcs
    /\ UNCHANGED <<collections, map_lock>>
    /\ UNCHANGED <<collectionVars, persistVars, moreVars>>

\* list_collections: keys().cloned().collect(), the keys of the HashMap each
\* once in the order its iterator yields them, which is any order
ListKeys(t, keys) ==
    /\ cli[t].pc = "list"
    /\ keys \in [1..Cardinality(DOMAIN collections) -> DOMAIN collections]
    /\ \A i, j \in DOMAIN keys : i # j => keys[i] # keys[j]
    /\ ClientAt(t, "unlock", [cli[t] EXCEPT !.items = keys])
    /\ UNCHANGED <<collections, arcs, map_lock>>
    /\ UNCHANGED <<collectionVars, persistVars, moreVars>>

\* the guard on the map is dropped as the method returns
DbUnlock(t) ==
    /\ cli[t].pc = "unlock"
    /\ map_lock' = [writer |-> IF map_lock.writer = Some(t) THEN None ELSE map_lock.writer,
                    readers |-> map_lock.readers \ {t}]
    /\ cli' = [cli EXCEPT ![t] = IdleClient(cli[t].handle)]
    /\ UNCHANGED <<collections, arcs>>
    /\ UNCHANGED <<collectionVars, persistVars, moreVars>>

\* a client is inside Collection::insert on the collection o, holding its
\* write lock
Writing(o) == \E u \in Threads : cli[u].pc = "inserting" /\ cli[u].handle = Some(o)

\* a variant of HandleWrite in which the insert goes through the lock of
\* the map
HandleWrite_through_map(t) ==
    /\ cli[t].pc = "idle" /\ cli[t].handle # None
    /\ ~Writing(unwrap(cli[t].handle))
    /\ can_write(map_lock) /\ map_lock' = [map_lock EXCEPT !.writer = Some(t)]
    /\ ClientAt(t, "inserting", cli[t])
    /\ UNCHANGED <<collections, arcs>>
    /\ UNCHANGED <<collectionVars, persistVars, moreVars>>

\* Collection::insert through the handle of client t: db.write()
HandleWrite(t) ==
    /\ cli[t].pc = "idle" /\ cli[t].handle # None
    /\ ~Writing(unwrap(cli[t].handle))
    /\ ClientAt(t, "inserting", cli[t])
    /\ UNCHANGED <<collections, map_lock, arcs>>
    /\ UNCHANGED <<collectionVars, persistVars, moreVars>>

\* Collection::insert through the handle of client t: VectorDb::insert under
\* the write lock, which is dropped at the return
HandleInsert(t, c, r, id) ==
    /\ cli[t].pc = "inserting"
    /\ ClientAt(t, "returned", [cli[t] EXCEPT !.status = r.status, !.id = id])
    /\ arcs' = [arcs EXCEPT ![unwrap(cli[t].handle)].data = Some(r.data)]
    /\ UNCHANGED <<collections, map_lock>>
    /\ UNCHANGED <<collectionVars, persistVars, moreVars>>

\* Collection::search through the handle of client t
HandleSearch(t, r) ==
    /\ cli[t].pc = "idle" /\ cli[t].handle # None
    /\ ~Writing(unwrap(cli[t].handle))
    /\ ClientAt(t, "returned", [cli[t] EXCEPT !.status = r.status, !.items = r.items])
    /\ UNCHANGED <<collections, map_lock, arcs>>
    /\ UNCHANGED <<collectionVars, persistVars, moreVars>>

\* the client takes the return value, or drops its handle
HandleDone(t) ==
    /\ \/ /\ cli[t].pc = "returned"
          /\ cli' = [cli EXCEPT ![t] = IdleClient(cli[t].handle)]
          /\ UNCHANGED arcs
       \/ /\ cli[t].pc = "idle" /\ cli[t].handle # None
          /\ cli' = [cli EXCEPT ![t] = IdleClient(None)]
          /\ arcs' = drop_arc(arcs, unwrap(cli[t].handle))
    /\ UNCHANGED <<collections, map_lock>>
    /\ UNCHANGED <<collectionVars, persistVars, moreVars>>

\* the VectorDb behind the handle of client t
Behind(t) == unwrap(arcs[unwrap(cli[t].handle)].data)

DbInit == Init /\ config.kind = "VectorDb" /\ config.hnsw.m0 = 1 /\ config.hnsw.ef_search = 1

DbNext ==
    \E t \in Threads :
        \/ \E op \in {"create", "delete", "get"}, name \in Names : DbLock(t, op, name)
        \/ CreateCheck(t)
        \/ CreateInsert(t)
        \/ DeleteRemove(t)
        \/ GetClone(t)
        \/ DbLock(t, "list", "")
        \/ \E keys \in {<<>>} \cup UNION {[1..n -> Names] : n \in 1..Cardinality(Names)} :
               ListKeys(t, keys)
        \/ DbUnlock(t)
        \/ HandleWrite(t)
        \/ \E id \in {"x"}, vector \in {<<1, 0>>} :
               HandleInsert(t, Behind(t),
                   VectorDbInsertOn(Behind(t), id, vector, 0,
                       StorageInsert(Behind(t), id, vector)), id)
        \/ \E query \in {<<1, 0>>} :
               HandleSearch(t, VectorDbSearchOn(Behind(t), query,
                                  IndexSearch(Behind(t), Behind(t).vectors, query, 1)))
        \/ HandleDone(t)

DbSpec == DbInit /\ [][DbNext]_vars

-----------------------------------------------------------------------------
(* A QuantizedVectorDb that keeps the originals and re-ranks, with four ids *)
(* so that k * rerank_multiplier cuts the candidates short, and with        *)
(* vectors whose order by quantized distance differs from the exact one.    *)

QuantNext ==
    \/ \E id \in ExternalIds \cup {"w"}, vector \in {<<1, 1>>, <<-1, 1>>, <<2, 0>>} :
           Insert(id, vector, 0)
    \/ \E query \in {<<0, 1>>, <<2, 0>>}, k \in 1..MaxK : Search(query, k)
    \/ Return

QuantInit ==
    /\ Init /\ config.kind = "QuantizedVectorDb" /\ config.keep_originals
    /\ config.quantization # "None"

QuantSpec == QuantInit /\ [][QuantNext]_vars

-----------------------------------------------------------------------------
(* The persistent collection: a write-ahead log, a snapshot and recovery.   *)
(* A record reaches the disk for certain when it is fsynced; a crash keeps  *)
(* the fsynced records and any number of the later ones, the last of which  *)
(* may be torn. The state of the collection is its records in insertion     *)
(* order.                                                                   *)

\* the number of operations in the log of one run
MaxOps == 3

\* the operations of a workload
PersistentOps ==
    {[kind |-> "insert", id |-> id, vector |-> <<1, 0>>] : id \in SharedIds}
    \cup {[kind |-> "upsert", id |-> "x", vector |-> <<-1, 1>>],
          [kind |-> "delete", id |-> "x", vector |-> <<>>]}

\* the collection holds a record with the id
has(state, id) == \E i \in DOMAIN state : state[i].id = id

\* one operation on the records of the collection: an insert of an id that
\* exists is DuplicateId and changes nothing
apply(state, op) ==
    CASE op.kind = "insert" ->
             IF has(state, op.id) THEN state
             ELSE Append(state, [id |-> op.id, vector |-> op.vector])
      [] op.kind = "upsert" ->
             IF has(state, op.id)
             THEN [i \in DOMAIN state |->
                      IF state[i].id = op.id THEN [id |-> op.id, vector |-> op.vector]
                      ELSE state[i]]
             ELSE Append(state, [id |-> op.id, vector |-> op.vector])
      [] OTHER -> SelectSeq(state, LAMBDA e : e.id # op.id)

\* recovery step 2: the records of the log are applied in order, those up
\* to the watermark are skipped and the scan stops at the first torn record
RECURSIVE replay(_, _, _)
replay(state, records, watermark) ==
    IF records = <<>> \/ records[1].torn THEN [state |-> state, seq |-> watermark]
    ELSE replay(IF records[1].seq > watermark THEN apply(state, records[1].op) ELSE state,
                Tail(records), Max(watermark, records[1].seq))

\* a variant of recover that starts empty and reads only the log
recover_log_only(snap, records) == replay(<<>>, records, 0)

\* recovery: the snapshot is loaded, or the state starts empty, and the log
\* is replayed from the watermark
recover(snap, records) ==
    IF snap = None THEN replay(<<>>, records, 0)
    ELSE replay(unwrap(snap).state, records, unwrap(snap).watermark)

\* a variant of fsynced in which no append is followed by an fsync
fsynced_never(log, sync_writes) == log.synced

\* the fsync policy: with sync_writes the append is fsynced before the
\* writer returns
fsynced(log, sync_writes) == IF sync_writes THEN Len(log.records) ELSE log.synced

\* search of the persistent collection: the k nearest records
persistent_search(state, query, k) ==
    take(sort_by_distance([i \in DOMAIN state |->
             Candidate(state[i].id, distance(query, state[i].vector))]), k)

\* insert, upsert or delete: the operation is validated and appended to the
\* log
WalAppend(op) ==
    /\ pdb.open /\ pdb.pc = "idle"
    /\ IF op.kind = "insert" /\ has(pdb.state, op.id)
       THEN /\ pdb' = [pdb EXCEPT !.status = "DuplicateId"]
            /\ UNCHANGED <<wal, workload>>
       ELSE /\ Len(workload) < MaxOps
            /\ wal' = [wal EXCEPT !.records =
                           Append(@, [seq |-> pdb.seq + 1, op |-> op, torn |-> FALSE])]
            /\ pdb' = [pdb EXCEPT !.seq = @ + 1, !.pc = "appended"]
            /\ workload' = Append(workload, op)
    /\ UNCHANGED <<snapshot, collectionVars, dbVars, moreVars>>

\* the appended operation is fsynced if sync_writes says so, applied to
\* storage and index, and Ok is returned
Commit ==
    /\ pdb.open /\ pdb.pc = "appended"
    /\ wal' = [wal EXCEPT !.synced = fsynced(wal, pdb.sync_writes)]
    /\ pdb' = [pdb EXCEPT !.state = apply(@, workload[Len(workload)]),
                          !.pc = "idle", !.status = "Ok"]
    /\ UNCHANGED <<snapshot, workload, collectionVars, dbVars, moreVars>>

\* checkpoint(): the image is written to snapshot.tmp and renamed, then the
\* log is rotated
Checkpoint ==
    /\ pdb.open
    /\ \/ /\ pdb.pc = "idle"
          /\ snapshot' = Some([watermark |-> pdb.seq, state |-> pdb.state])
          /\ pdb' = [pdb EXCEPT !.pc = "renamed"]
          /\ UNCHANGED wal
       \/ /\ pdb.pc = "renamed"
          /\ wal' = [records |-> <<>>, synced |-> 0]
          /\ pdb' = [pdb EXCEPT !.pc = "idle", !.status = "Ok"]
          /\ UNCHANGED snapshot
    /\ UNCHANGED <<workload, collectionVars, dbVars, moreVars>>

\* the handle is dropped: the log is flushed
Close ==
    /\ pdb.open /\ pdb.pc = "idle"
    /\ wal' = [wal EXCEPT !.synced = Len(wal.records)]
    /\ pdb' = [pdb EXCEPT !.open = FALSE, !.clean = TRUE]
    /\ UNCHANGED <<snapshot, workload, collectionVars, dbVars, moreVars>>

\* the process is killed: of the log the first kept records remain, and
\* the next one torn if torn says so
Crash(kept, torn) ==
    /\ pdb.open
    /\ kept \in wal.synced..Len(wal.records)
    /\ torn => kept < Len(wal.records)
    /\ wal' = [records |-> SubSeq(wal.records, 1, kept) \o
                           (IF torn THEN <<[wal.records[kept + 1] EXCEPT !.torn = TRUE]>>
                            ELSE <<>>),
               synced |-> wal.synced]
    /\ pdb' = [pdb EXCEPT !.open = FALSE, !.clean = FALSE]
    /\ UNCHANGED <<snapshot, workload, collectionVars, dbVars, moreVars>>

\* PersistentVectorDb::open after recovery returned r: the log is truncated
\* after its last valid record
Open(sync_writes, r) ==
    /\ ~pdb.open
    /\ pdb' = [pdb EXCEPT !.open = TRUE, !.state = r.state, !.seq = r.seq, !.pc = "idle",
                          !.status = "Recovered", !.sync_writes = sync_writes]
    /\ wal' = [records |-> SelectSeq(wal.records, LAMBDA e : ~e.torn),
               synced |-> Len(SelectSeq(wal.records, LAMBDA e : ~e.torn))]
    /\ workload' = SubSeq(workload, 1, r.seq)
    /\ UNCHANGED <<snapshot, collectionVars, dbVars, moreVars>>

PersistNext ==
    \/ \E op \in PersistentOps : WalAppend(op)
    \/ Commit
    \/ Checkpoint
    \/ Close
    \/ \E kept \in 0..MaxOps, torn \in BOOLEAN : Crash(kept, torn)
    \/ \E sync_writes \in BOOLEAN : Open(sync_writes, recover(snapshot, wal.records))

PersistInit == Init /\ config.kind = "VectorDb" /\ config.hnsw = HnswConfig_default

PersistSpec == PersistInit /\ [][PersistNext]_vars

-----------------------------------------------------------------------------
(* Filter: the metadata filter of surgedb-core. A serde_json Value is a     *)
(* record of its kind t and its content v; a String of the source that is   *)
(* a key or a path is the sequence of its characters, so that split('.')    *)
(* is computed on it.                                                       *)

Bool(b) == [t |-> "Bool", v |-> IF b THEN "true" ELSE "false"]
String(s) == [t |-> "String", v |-> s]
Array(items) == [t |-> "Array", v |-> items]
Object(map) == [t |-> "Object", v |-> map]

\* the keys and paths of the tests
public == <<"p", "u", "b", "l", "i", "c">>
tags == <<"t", "a", "g", "s">>
category == <<"c", "a", "t", "e", "g", "o", "r", "y">>
publisher == <<"p", "u", "b", "l", "i", "s", "h", "e", "r">>
location == <<"l", "o", "c", "a", "t", "i", "o", "n">>
dot(a, b) == a \o <<".">> \o b

\* the map with the given keys and values
map_of(keys, values) ==
    [key \in {keys[i] : i \in DOMAIN keys} |->
        values[CHOOSE i \in DOMAIN keys : keys[i] = key]]

\* the metadata of test_logical_operators
test_metadata ==
    Object(map_of(<<tags, public>>, <<Array(<<String("ai"), String("database")>>), Bool(TRUE)>>))

\* the metadata of test_logical_operators and of test_nested_path, and two
\* more: an array inside an array, and an object whose key is "0"
Metadatas ==
    {test_metadata,
     Object(map_of(<<category, publisher>>,
                   <<String("books"), Object(map_of(<<location>>, <<String("CA")>>))>>)),
     Object(map_of(<<tags>>, <<Array(<<Array(<<String("ai")>>), String("ai")>>)>>)),
     Object(map_of(<<tags, public>>, <<Object(map_of(<<<<"0">>>>, <<String("ai")>>)), Bool(FALSE)>>))}

Paths ==
    {<<>>, public, tags, category, dot(tags, <<"0">>), dot(tags, <<"1">>),
     dot(dot(tags, <<"0">>), <<"0">>), dot(publisher, location), dot(tags, <<>>)}

Values == {Bool(TRUE), String("ai"), String("database"), String("CA"), String("something_else")}

Exact(key, value) == [t |-> "Exact", key |-> key, value |-> value]
OneOf(key, values) == [t |-> "OneOf", key |-> key, values |-> values]
And(filters) == [t |-> "And", filters |-> filters]
Or(filters) == [t |-> "Or", filters |-> filters]
Not(filter) == [t |-> "Not", filter |-> filter]

\* the filter of test_logical_operators
test_filter ==
    And(<<Exact(public, Bool(TRUE)),
          Or(<<Exact(dot(tags, <<"0">>), String("ai")),
               Exact(category, String("something_else"))>>)>>)

Filters ==
    {test_filter, And(<<>>), Or(<<>>)}
    \cup {Exact(key, value) : key \in Paths, value \in Values}
    \cup {Not(Exact(key, String("ai"))) : key \in Paths}
    \cup {OneOf(key, <<String("database"), String("ai")>>) : key \in Paths}

\* PartialEq of Value
RECURSIVE value_eq(_, _)
value_eq(a, b) ==
    /\ a.t = b.t
    /\ CASE a.t \in {"Array", "Object"} ->
               /\ DOMAIN a.v = DOMAIN b.v
               /\ \A i \in DOMAIN a.v : value_eq(a.v[i], b.v[i])
          [] OTHER -> a.v = b.v

\* str::split('.'): the parts between the dots, in order
RECURSIVE split(_)
split(path) ==
    IF \A i \in DOMAIN path : path[i] # "." THEN <<path>>
    ELSE <<SubSeq(path, 1, (CHOOSE i \in DOMAIN path :
                               path[i] = "." /\ \A j \in 1..(i - 1) : path[j] # ".") - 1)>>
         \o split(SubSeq(path, (CHOOSE i \in DOMAIN path :
                                   path[i] = "." /\ \A j \in 1..(i - 1) : path[j] # ".") + 1,
                          Len(path)))

\* the loop of get_value_by_path over the parts left
RECURSIVE by_parts(_, _)
by_parts(current, parts) ==
    IF parts = <<>> THEN Some(current)
    ELSE IF current.t = "Object" /\ parts[1] \in DOMAIN current.v
         THEN by_parts(current.v[parts[1]], Tail(parts))
         ELSE None

\* get_value_by_path(metadata, path)
get_value_by_path(metadata, path) ==
    IF path = <<>> THEN Some(metadata) ELSE by_parts(metadata, split(path))

\* actual_value == expected_value, or false without an actual value
equals_at(actual, expected) == actual # None /\ value_eq(unwrap(actual), expected)

\* allowed_values.contains(actual_value), or false without an actual value
contains_at(actual, allowed) ==
    actual # None /\ \E i \in DOMAIN allowed : value_eq(allowed[i], unwrap(actual))

\* Filter::matches
RECURSIVE matches(_, _)
matches(filter, metadata) ==
    CASE filter.t = "Exact" -> equals_at(get_value_by_path(metadata, filter.key), filter.value)
      [] filter.t = "OneOf" -> contains_at(get_value_by_path(metadata, filter.key), filter.values)
      [] filter.t = "And" -> \A i \in DOMAIN filter.filters : matches(filter.filters[i], metadata)
      [] filter.t = "Or" -> \E i \in DOMAIN filter.filters : matches(filter.filters[i], metadata)
      [] filter.t = "Not" -> ~matches(filter.filter, metadata)

\* a call of filter.matches(&metadata)
Matches(filter, metadata) ==
    /\ matched' = Some([filter |-> filter, metadata |-> metadata,
                        result |-> matches(filter, metadata)])
    /\ UNCHANGED <<collectionVars, dbVars, persistVars, walk, locks, proc, metricVars>>

FilterInit == Init /\ config.kind = "VectorDb" /\ config.hnsw = HnswConfig_default

FilterNext == \E filter \in Filters, metadata \in Metadatas : Matches(filter, metadata)

FilterSpec == FilterInit /\ [][FilterNext]_vars

-----------------------------------------------------------------------------
(* search_layer_single and search_layer a round of their loops at a time,   *)
(* on any graph of GraphNodes nodes at layer 0: every node has any list of  *)
(* at most two neighbours, itself among them, so cycles and self-loops      *)
(* occur. Nodes 2i - 1 and 2i store the same vector.                        *)

GraphNodes == 3

\* the flat vector data: node i stores ((i + 1) / 2, 0)
graph_vectors ==
    [j \in 1..(dimensions * GraphNodes) |-> IF j % 2 = 1 THEN ((j + 1) \div 2) \div 2 ELSE 0]

\* the neighbour lists a node of a graph of n nodes can have
Lists(n) ==
    {<<>>} \cup {<<a>> : a \in 0..(n - 1)}
    \cup {l \in (0..(n - 1)) \X (0..(n - 1)) : l[1] < l[2]}

\* the node arrays of n nodes
Graphs(n) ==
    {[i \in 1..n |-> [id |-> i - 1, max_layer |-> 0, neighbors |-> <<g[i]>>]] :
        g \in [1..n -> Lists(n)]}

\* the state before the loop of either method; rounds counts the rounds the
\* loop has made
walk_start(kind, ns, query, entry, ef, entry_dist) ==
    [pc |-> "loop", kind |-> kind, ns |-> ns, query |-> query, entry |-> entry, ef |-> ef,
     cur |-> [current |-> entry, current_dist |-> entry_dist, changed |-> FALSE],
     s |-> search_start(entry, entry_dist), rounds |-> 0]

\* the walk after a round of the loop of search_layer_single gave `after`
rounded(w, after) ==
    [w EXCEPT !.cur = after, !.pc = IF after.changed THEN "loop" ELSE "done",
              !.rounds = @ + 1]

\* one round of the loop of search_layer_single, and the break
SingleRound ==
    /\ walk # None /\ unwrap(walk).pc = "loop" /\ unwrap(walk).kind = "single"
    /\ walk' = Some(rounded(unwrap(walk),
                            single_round(unwrap(walk).ns, graph_vectors, unwrap(walk).query,
                                         0, unwrap(walk).cur)))
    /\ UNCHANGED <<collectionVars, dbVars, persistVars, matched, locks, proc, metricVars>>

\* one round of the while loop of search_layer, and its end
LayerStep ==
    /\ walk # None /\ unwrap(walk).pc = "loop" /\ unwrap(walk).kind = "layer"
    /\ IF unwrap(walk).s.done \/ unwrap(walk).s.st.candidates = <<>>
       THEN walk' = Some([unwrap(walk) EXCEPT !.pc = "done", !.rounds = @ + 1])
       ELSE walk' = Some([unwrap(walk) EXCEPT !.rounds = @ + 1, !.s =
                             layer_step(unwrap(walk).ns, graph_vectors, unwrap(walk).query,
                                        unwrap(walk).ef, 0, unwrap(walk).s.st,
                                        pop("min", unwrap(walk).s.st.candidates))])
    /\ UNCHANGED <<collectionVars, dbVars, persistVars, matched, locks, proc, metricVars>>

\* search_layer_single(query, entry, 0, nodes, storage) or
\* search_layer(query, entry, ef, 0, nodes, storage) has been called on a
\* graph of n nodes
Calls(n) ==
    {walk_start(c[1], ns, query, entry, c[2], dist_to(graph_vectors, query, entry)) :
        c \in {<<"single", 1>>, <<"layer", 1>>, <<"layer", 2>>}, ns \in Graphs(n),
        query \in {<<2, 0>>}, entry \in 0..(n - 1)}

WalkInit ==
    /\ Created /\ NoThreads /\ NoServer /\ config.kind = "VectorDb" /\ config.hnsw = HnswConfig_default
    /\ walk \in {Some(w) : w \in Calls(GraphNodes)}

WalkNext == SingleRound \/ LayerStep

WalkSpec == WalkInit /\ [][WalkNext]_vars

-----------------------------------------------------------------------------
(* Threads on a shared VectorStorage and HnswIndex, each field in its own   *)
(* RwLock. A thread takes the guards of its call one at a time in the order *)
(* of the code and drops them when the call returns or panics. A call that  *)
(* reads vectors through storage.get_vector_data takes and drops the read   *)
(* guard of vectors for each read; its body is one step here, taken when    *)
(* that guard can be had.                                                   *)

\* a variant of lock_order in which search reads entry_point before nodes
lock_order_entry_first(op) ==
    CASE op = "storage_insert" ->
             <<[lock |-> "id_to_internal", kind |-> "write"],
               [lock |-> "vectors", kind |-> "write"],
               [lock |-> "internal_to_id", kind |-> "write"]>>
      [] op = "index_insert" ->
             <<[lock |-> "nodes", kind |-> "write"],
               [lock |-> "entry_point", kind |-> "write"],
               [lock |-> "max_layer", kind |-> "write"]>>
      [] op = "search" ->
             <<[lock |-> "entry_point", kind |-> "read"],
               [lock |-> "nodes", kind |-> "read"],
               [lock |-> "max_layer", kind |-> "peek"]>>
      [] op = "get" -> <<[lock |-> "vectors", kind |-> "peek"]>>
      [] op = "get_external_id" -> <<[lock |-> "internal_to_id", kind |-> "peek"]>>
      [] OTHER -> <<>>

\* the guards a call takes, in order: a write guard, a read guard, or a read
\* guard that is dropped at the end of the statement that takes it (peek)
lock_order(op) ==
    CASE op = "storage_insert" ->
             <<[lock |-> "id_to_internal", kind |-> "write"],
               [lock |-> "vectors", kind |-> "write"],
               [lock |-> "internal_to_id", kind |-> "write"]>>
      [] op = "index_insert" ->
             <<[lock |-> "nodes", kind |-> "write"],
               [lock |-> "entry_point", kind |-> "write"],
               [lock |-> "max_layer", kind |-> "write"]>>
      [] op = "search" ->
             <<[lock |-> "nodes", kind |-> "read"],
               [lock |-> "entry_point", kind |-> "read"],
               [lock |-> "max_layer", kind |-> "peek"]>>
      [] op = "get" -> <<[lock |-> "vectors", kind |-> "peek"]>>
      [] op = "get_external_id" -> <<[lock |-> "internal_to_id", kind |-> "peek"]>>
      [] OTHER -> <<>>

\* storage.insert of thread t has found its id in the map and returns
duplicate(t) ==
    proc[t].op = "storage_insert" /\ proc[t].held = 1 /\ proc[t].id \in DOMAIN id_to_internal

\* the guard thread t asks for next: the next one of its call, or the read
\* guard of vectors when the body of an index call reads the storage
wants(t) ==
    IF duplicate(t) THEN None
    ELSE IF proc[t].held < Len(lock_order(proc[t].op))
    THEN Some(lock_order(proc[t].op)[proc[t].held + 1])
    ELSE IF proc[t].op \in {"index_insert", "search"} /\ entry_point # None
         THEN Some([lock |-> "vectors", kind |-> "peek"])
         ELSE None

\* the guard w can be had now
available(w) ==
    IF w.kind = "write" THEN can_write(locks[w.lock]) ELSE can_read(locks[w.lock])

\* the locks after thread t took the guard w
taken(t, w) ==
    CASE w.kind = "write" -> [locks EXCEPT ![w.lock].writer = Some(t)]
      [] w.kind = "read" -> [locks EXCEPT ![w.lock].readers = @ \cup {t}]
      [] OTHER -> locks

\* the locks after thread t dropped its guards
released(t) ==
    [l \in LockNames |->
        [writer |-> IF locks[l].writer = Some(t) THEN None ELSE locks[l].writer,
         readers |-> locks[l].readers \ {t}]]

\* thread t goes on as p
Proceeds(t, p) == proc' = [proc EXCEPT ![t] = p]

\* a thread calls storage.insert(id, vector), index.search(query, 1, storage),
\* storage.get or storage.get_external_id
StartOp(t, op, id, vector) ==
    /\ proc[t].op = "idle"
    /\ Proceeds(t, [IdleProc EXCEPT !.op = op, !.id = id, !.vector = vector])
    /\ UNCHANGED <<config, storageVars, quantizedVars, indexVars, result, lockVars, locks>>
    /\ UNCHANGED <<dbVars, persistVars, matched, walk, metricVars>>

\* the next guard of the call of thread t; storage.insert goes on past its
\* first guard only with an id that is not in the map
Acquire(t) ==
    /\ proc[t].held < Len(lock_order(proc[t].op))
    /\ proc[t].op \notin {"get", "get_external_id"}
    /\ ~duplicate(t)
    /\ available(unwrap(wants(t)))
    /\ locks' = taken(t, unwrap(wants(t)))
    /\ Proceeds(t, [proc[t] EXCEPT !.held = @ + 1])
    /\ UNCHANGED <<config, storageVars, quantizedVars, indexVars, result, lockVars>>
    /\ UNCHANGED <<dbVars, persistVars, matched, walk, metricVars>>

\* the call of thread t returns, or panics, with the status given, and drops
\* its guards
Leaves(t, status, items) ==
    /\ locks' = released(t)
    /\ Proceeds(t, [IdleProc EXCEPT !.op = IF status = "panicked" THEN "panicked" ELSE "idle",
                                    !.status = status, !.items = items])

\* VectorStorage::insert finds the id in the map
StorageDuplicate(t) ==
    /\ duplicate(t)
    /\ Leaves(t, "DuplicateId", <<>>)
    /\ UNCHANGED <<config, storageVars, quantizedVars, indexVars, result, lockVars>>
    /\ UNCHANGED <<dbVars, persistVars, matched, walk, metricVars>>

\* VectorStorage::insert under its three guards; the thread goes on to
\* index.insert with the InternalId returned
StorageBody(t, r) ==
    /\ proc[t].op = "storage_insert" /\ proc[t].held = 3
    /\ vectors' = r.st.vectors
    /\ id_to_internal' = r.st.id_to_internal
    /\ internal_to_id' = r.st.internal_to_id
    /\ locks' = released(t)
    /\ Proceeds(t, [proc[t] EXCEPT !.op = "index_insert", !.held = 0,
                                   !.internal_id = r.internal_id])
    /\ UNCHANGED <<config, quantizedVars, indexVars, result, lockVars>>
    /\ UNCHANGED <<dbVars, persistVars, matched, walk, metricVars>>

\* an index into the node array that is past its end panics
in_bounds(ns, id) == id < Len(ns)

\* HnswIndex::insert under its three guards, with level 0: the push of the
\* new node, and then either the first-node return, or a panic at
\* nodes[current.id] of the entry point or at nodes[node_idx] of the new
\* node, or the links
IndexBody(t, internal_id) ==
    /\ proc[t].op = "index_insert" /\ proc[t].held = 3
    /\ entry_point # None => can_read(locks["vectors"])
    /\ IF entry_point = None
          \/ /\ in_bounds(Append(nodes, HnswNode(internal_id, 0)), unwrap(entry_point))
             /\ in_bounds(Append(nodes, HnswNode(internal_id, 0)), internal_id)
       THEN /\ SetIndex(IndexInsert(index, vectors, internal_id, proc[t].vector, 0))
            /\ Leaves(t, "Ok", <<>>)
       ELSE /\ nodes' = Append(nodes, HnswNode(internal_id, 0))
            /\ UNCHANGED <<entry_point, max_layer>>
            /\ Leaves(t, "panicked", <<>>)
    /\ UNCHANGED <<config, storageVars, quantizedVars, result, lockVars>>
    /\ UNCHANGED <<dbVars, persistVars, matched, walk, metricVars>>

\* HnswIndex::search under its guards: EmptyIndex, a panic at
\* nodes[current.id] of the entry point, or the results
SearchBody(t) ==
    /\ proc[t].op = "search" /\ proc[t].held = 3
    /\ entry_point # None => can_read(locks["vectors"])
    /\ IF entry_point = None \/ in_bounds(nodes, unwrap(entry_point))
       THEN Leaves(t, IndexSearch(index, vectors, proc[t].vector, 1).status,
                   IndexSearch(index, vectors, proc[t].vector, 1).items)
       ELSE Leaves(t, "panicked", <<>>)
    /\ UNCHANGED <<config, storageVars, quantizedVars, indexVars, result, lockVars>>
    /\ UNCHANGED <<dbVars, persistVars, matched, walk, metricVars>>

\* VectorStorage::get(0) or get_external_id(0): the read under the guard,
\* which is dropped at the return
GetBody(t) ==
    /\ proc[t].op \in {"get", "get_external_id"}
    /\ available(unwrap(wants(t)))
    /\ Leaves(t, "Ok", IF proc[t].op = "get" THEN get_vector_data(vectors, 0)
                       ELSE get_external_id(0))
    /\ UNCHANGED <<config, storageVars, quantizedVars, indexVars, result, lockVars>>
    /\ UNCHANGED <<dbVars, persistVars, matched, walk, metricVars>>

ConcInit ==
    /\ Created /\ walk = None /\ SharedFields /\ NoServer
    /\ config.kind = "VectorDb" /\ config.hnsw = HnswConfig_default

ConcNext ==
    \E t \in Threads :
        \/ \E id \in SharedIds : StartOp(t, "storage_insert", id, <<1, 0>>)
        \/ \E op \in {"search", "get", "get_external_id"} : StartOp(t, op, "", <<1, 0>>)
        \/ Acquire(t)
        \/ StorageDuplicate(t)
        \/ StorageBody(t, StorageInsert(storage, proc[t].id, proc[t].vector))
        \/ IndexBody(t, unwrap(proc[t].internal_id))
        \/ SearchBody(t)
        \/ GetBody(t)

ConcSpec == ConcInit /\ [][ConcNext]_vars

-----------------------------------------------------------------------------
(* The metrics of the server: record_request and the collection task.       *)

\* the collection task ticks at most this often
MaxTicks == 2

\* the history keeps this many snapshots
HistoryCap == 600

\* a latency in milliseconds is written as a number of half microseconds;
\* (latency_ms * 1000.0) as u64 truncates it to whole microseconds
as_u64_us(latency) == latency \div 2

\* the requests made: a method and a latency
Requests == {<<"GET", 3>>, <<"POST", 4>>, <<"OPTIONS", 3>>}

RECURSIVE gcd(_, _)
gcd(a, b) == IF b = 0 THEN a ELSE gcd(b, a % b)

\* the quotient n / d as a fraction in lowest terms
ratio(n, d) == <<n \div gcd(n, d), d \div gcd(n, d)>>

\* (total_lat_us as f64 / 1000.0) / count as f64, or 0.0
avg_latency(total_lat_us, count) ==
    IF count > 0 THEN ratio(total_lat_us, 1000 * count) ELSE ratio(0, 1)

\* timestamp, memory_usage_mb and storage_usage_bytes are read from the
\* system and are left out
MetricsSnapshot(reads, writes, avg) ==
    [read_requests |-> reads, write_requests |-> writes, avg_latency_ms |-> avg]

\* history.push_back after the pop_front of a full history
pushed(history, snap) ==
    Append(IF Len(history) >= HistoryCap THEN Tail(history) ELSE history, snap)

MetricsFrame == UNCHANGED <<collectionVars, dbVars, persistVars, matched, walk, locks, proc>>

\* metrics_middleware: the response is there, record_request is called
Request(t, method, latency) ==
    /\ tasks.requests[t].pc = "idle"
    /\ tasks.made < MaxOps
    /\ tasks' = [tasks EXCEPT !.requests[t] = [pc |-> "method", method |-> method,
                                                latency_us |-> as_u64_us(latency)],
                              !.made = @ + 1]
    /\ UNCHANGED metrics
    /\ MetricsFrame

\* record_request: the match on the method
RecordMethod(t) ==
    /\ tasks.requests[t].pc = "method"
    /\ metrics' = CASE tasks.requests[t].method = "GET" ->
                          [metrics EXCEPT !.current_reads = @ + 1]
                     [] tasks.requests[t].method = "POST" ->
                          [metrics EXCEPT !.current_writes = @ + 1]
                     [] OTHER -> metrics
    /\ tasks' = [tasks EXCEPT !.requests[t].pc = "latency"]
    /\ MetricsFrame

\* record_request: total_latency_us.fetch_add(latency_us)
AddLatency(t) ==
    /\ tasks.requests[t].pc = "latency"
    /\ metrics' = [metrics EXCEPT !.total_latency_us = @ + tasks.requests[t].latency_us]
    /\ tasks' = [tasks EXCEPT !.requests[t].pc = "count"]
    /\ MetricsFrame

\* record_request: latency_count.fetch_add(1); the request is counted
AddCount(t) ==
    /\ tasks.requests[t].pc = "count"
    /\ metrics' = [metrics EXCEPT !.latency_count = @ + 1]
    /\ tasks' = [tasks EXCEPT !.requests[t] = IdleTasks.requests[t],
                              !.counted = [us |-> @.us + tasks.requests[t].latency_us,
                                           n |-> @.n + 1]]
    /\ MetricsFrame

\* the collection task is spawned and pushes the initial snapshot
FirstSnapshot ==
    /\ tasks.collector.pc = "start"
    /\ metrics' = [metrics EXCEPT !.history = Append(@, MetricsSnapshot(0, 0, ratio(0, 1)))]
    /\ tasks' = [tasks EXCEPT !.collector.pc = "sleep", !.windows = Append(@, NoRequests)]
    /\ MetricsFrame

\* the sleep is over: current_reads.swap(0)
SwapReads ==
    /\ tasks.collector.pc = "sleep"
    /\ tasks.ticks < MaxTicks
    /\ metrics' = [metrics EXCEPT !.current_reads = 0]
    /\ tasks' = [tasks EXCEPT !.collector.pc = "writes",
                              !.collector.reads = metrics.current_reads,
                              !.ticks = @ + 1]
    /\ MetricsFrame

\* current_writes.swap(0)
SwapWrites ==
    /\ tasks.collector.pc = "writes"
    /\ metrics' = [metrics EXCEPT !.current_writes = 0]
    /\ tasks' = [tasks EXCEPT !.collector.pc = "count",
                              !.collector.writes = metrics.current_writes]
    /\ MetricsFrame

\* latency_count.swap(0): the window of the snapshot closes
SwapCount ==
    /\ tasks.collector.pc = "count"
    /\ metrics' = [metrics EXCEPT !.latency_count = 0]
    /\ tasks' = [tasks EXCEPT !.collector.pc = "total",
                              !.collector.count = metrics.latency_count,
                              !.collector.window = tasks.counted,
                              !.counted = NoRequests]
    /\ MetricsFrame

\* total_latency_us.swap(0)
SwapLatency ==
    /\ tasks.collector.pc = "total"
    /\ metrics' = [metrics EXCEPT !.total_latency_us = 0]
    /\ tasks' = [tasks EXCEPT !.collector.pc = "push",
                              !.collector.total_lat_us = metrics.total_latency_us]
    /\ MetricsFrame

\* the snapshot is computed and pushed to the history
PushSnapshot ==
    /\ tasks.collector.pc = "push"
    /\ metrics' = [metrics EXCEPT !.history =
                       pushed(@, MetricsSnapshot(tasks.collector.reads, tasks.collector.writes,
                                                 avg_latency(tasks.collector.total_lat_us,
                                                             tasks.collector.count)))]
    /\ tasks' = [tasks EXCEPT !.collector = [IdleTasks.collector EXCEPT !.pc = "sleep"],
                              !.windows = pushed(@, tasks.collector.window)]
    /\ MetricsFrame

MetricsInit ==
    /\ Created /\ walk = None /\ NoThreads /\ Serving
    /\ config.kind = "VectorDb" /\ config.hnsw = HnswConfig_default

MetricsNext ==
    \/ \E t \in Threads, r \in Requests : Request(t, r[1], r[2])
    \/ \E t \in Threads : RecordMethod(t) \/ AddLatency(t) \/ AddCount(t)
    \/ FirstSnapshot
    \/ SwapReads
    \/ SwapWrites
    \/ SwapCount
    \/ SwapLatency
    \/ PushSnapshot

MetricsSpec == MetricsInit /\ [][MetricsNext]_vars

-----------------------------------------------------------------------------
(* The claims.                                                              *)

\* a call was made in this step: the caller was idle and now holds a result
Called(op) == result = Idle /\ result'.op = op

C2_DimensionMismatchFirst ==
    [][/\ ((Called("insert") \/ Called("search")) /\ Len(result'.vector) # dimensions)
          => (/\ result'.status = "DimensionMismatch"
              /\ UNCHANGED <<storageVars, quantizedVars, indexVars>>)
       /\ (Called("insert") /\ result'.status # "Ok")
          => UNCHANGED <<storageVars, quantizedVars, indexVars>>]_vars

\* C2 witness: a search with a query of the wrong length on the empty
\* collection was answered DimensionMismatch.
C2_Witness ==
    /\ result.op = "search" /\ result.status = "DimensionMismatch"
    /\ Len(result.vector) # dimensions
    /\ len = 0 /\ entry_point = None

\* C3: the two ID maps are mutually inverse and both have len() entries.
C3_IdMapsInverse ==
    /\ \A x \in DOMAIN id_to_internal :
           get_external_id(id_to_internal[x]) = Some(x)
    /\ \A i \in 0..(len - 1) :
           /\ get_external_id(i) # None
           /\ get_internal_id(unwrap(get_external_id(i))) = Some(i)
    /\ Cardinality(DOMAIN id_to_internal) = len
    /\ Len(internal_to_id) = len

\* C3 witness: three vectors are stored and the last insert was refused.
C3_Witness ==
    /\ len = 3
    /\ result.op = "insert" /\ result.status = "DuplicateId"

\* C4: a successful insert binds its ExternalId to the InternalId len() had
\* before the call and raises len() by one; a failed insert leaves len() as
\* it was; no call changes the InternalId of an ExternalId bound before it or
\* binds that InternalId to the new ExternalId.
C4_DenseMonotonicIds ==
    [][/\ (Called("insert") /\ result'.status = "Ok")
          => (/\ result'.id \notin DOMAIN id_to_internal
              /\ result'.id \in DOMAIN id_to_internal'
              /\ id_to_internal'[result'.id] = len
              /\ len' = len + 1)
       /\ (Called("insert") /\ result'.status # "Ok") => len' = len
       /\ \A x \in DOMAIN id_to_internal :
              /\ x \in DOMAIN id_to_internal'
              /\ id_to_internal'[x] = id_to_internal[x]
              /\ \A y \in DOMAIN id_to_internal' :
                     id_to_internal'[y] = id_to_internal[x] => y = x]_vars

\* C4 witness: the third successful insert received InternalId 2.
C4_Witness ==
    /\ result.op = "insert" /\ result.status = "Ok"
    /\ len = 3
    /\ get_internal_id(result.id) = Some(2)

\* the ExternalIds whose stored vector is v
IdsStoring(v) ==
    {x \in DOMAIN id_to_internal : get(vectors, id_to_internal[x]) = Some(v)}

\* no two ExternalIds of the VectorDb store the same vector
DistinctVectors ==
    \A x, y \in DOMAIN id_to_internal :
        x # y => get(vectors, id_to_internal[x]) # get(vectors, id_to_internal[y])

\* C5: in a VectorDb whose stored vectors are pairwise different,
\* search(v, 1) for an inserted (id, v) returns id as its single result.
C5_SelfIsNearest ==
    (/\ config.kind = "VectorDb"
     /\ result.op = "search" /\ result.k = 1 /\ result.status = "Ok"
     /\ DistinctVectors)
    => \A x \in IdsStoring(result.vector) :
           Len(result.items) = 1 /\ result.items[1].id = x

\* C6: VectorDb::search(query, k) on a database holding n vectors returns
\* exactly min(k, n) results.
C6_ReturnsMinKN ==
    (config.kind = "VectorDb" /\ result.op = "search" /\ result.status = "Ok")
    => Len(result.items) = Min(result.k, len)

\* a list of (id, distance) pairs has at most k entries, ascending distances
\* and no id twice
TopK(items, k) ==
    /\ Len(items) <= k
    /\ \A i, j \in DOMAIN items :
           i < j => (items[i].distance <= items[j].distance /\ items[i].id # items[j].id)

\* C7: the list a search returns (VectorDb::search, QuantizedVectorDb::search)
\* and the list of InternalIds HnswIndex::search computed for it (a search
\* leaves the index as it was, so it is the list computed in this state)
\* have at most k entries, are sorted by distance ascending and name no id
\* twice.
C7_SortedTopK ==
    (result.op = "search" /\ result.status = "Ok")
    => /\ TopK(result.items, result.k)
       /\ config.kind = "VectorDb"
          => TopK(IndexSearch(index, vectors, result.vector, result.k).items, result.k)

\* C7 witness: a search with k = 2 on three stored vectors returned two
\* results at different distances.
C7_Witness ==
    /\ result.op = "search" /\ result.status = "Ok" /\ result.k = 2
    /\ len = 3 /\ Len(result.items) = 2
    /\ result.items[1].distance < result.items[2].distance

\* C8: a search with a query of the configured dimension returns EmptyIndex
\* exactly when no insert has succeeded (len() is 0).
C8_EmptyIndexIffEmpty ==
    (result.op = "search" /\ Len(result.vector) = dimensions)
    => (result.status = "EmptyIndex" <=> len = 0)

\* C8 witness: a well-formed query on the empty collection was answered
\* EmptyIndex.
C8_Witness ==
    /\ result.op = "search" /\ Len(result.vector) = dimensions
    /\ result.status = "EmptyIndex" /\ len = 0

\* C9: every neighbour list at layer 0 has at most M0 entries and every
\* neighbour list at a layer >= 1 at most M entries.
C9_DegreeCaps ==
    \A i \in DOMAIN nodes : \A l \in DOMAIN nodes[i].neighbors :
        Len(nodes[i].neighbors[l]) <=
            (IF l = 1 THEN config.hnsw.m0 ELSE config.hnsw.m)

\* C9 witness: a node whose layer-0 list is full (M0 entries) is the
\* neighbour of a node it does not list: the reverse edge was pruned.
C9_Witness ==
    \E i, j \in DOMAIN nodes :
        /\ Len(nodes[i].neighbors[1]) = config.hnsw.m0
        /\ \E n \in DOMAIN nodes[j].neighbors[1] : nodes[j].neighbors[1][n] = i - 1
        /\ \A n \in DOMAIN nodes[i].neighbors[1] : nodes[i].neighbors[1][n] # j - 1

\* C10: entry_point is None iff the index has no nodes; otherwise it names
\* an existing node whose max_layer is the index's max_layer, the maximum
\* max_layer over all nodes.
C10_EntryPointAtTop ==
    /\ (entry_point = None) <=> (nodes = <<>>)
    /\ entry_point # None =>
           /\ unwrap(entry_point) + 1 \in DOMAIN nodes
           /\ nodes[unwrap(entry_point) + 1].max_layer = max_layer
           /\ \A i \in DOMAIN nodes : nodes[i].max_layer <= max_layer

\* C10 witness: the second of two nodes was drawn a higher level than the
\* first and replaced it as the entry point.
C10_Witness ==
    /\ Len(nodes) = 2
    /\ entry_point = Some(1) /\ max_layer = 1
    /\ nodes[1].max_layer = 0

\* node x lists node y at the layer
Edge(ns, x, y, layer) ==
    /\ x + 1 \in DOMAIN ns
    /\ layer + 1 \in DOMAIN ns[x + 1].neighbors
    /\ \E i \in DOMAIN ns[x + 1].neighbors[layer + 1] :
           ns[x + 1].neighbors[layer + 1][i] = y

\* x lists y at the layer and y does not list x
OneWay(ns, x, y, layer) == Edge(ns, x, y, layer) /\ ~Edge(ns, y, x, layer)

\* the cap of a neighbour list at the layer
Cap(layer) == IF layer = 0 THEN config.hnsw.m0 ELSE config.hnsw.m

\* in this step the insert of node Len(nodes) pruned y's list at the layer
\* and the prune removed x: y had x (or just received the new node x), y
\* is a neighbour of the new node, and y's list was full before and is full
\* after
PrunedAway(x, y, layer) ==
    /\ y + 1 \in DOMAIN nodes /\ layer + 1 \in DOMAIN nodes[y + 1].neighbors
    /\ Edge(nodes', Len(nodes), y, layer)
    /\ (x = Len(nodes) \/ Edge(nodes, y, x, layer))
    /\ Len(nodes[y + 1].neighbors[layer + 1]) = Cap(layer)
    /\ Len(nodes'[y + 1].neighbors[layer + 1]) = Cap(layer)

\* C11: every edge x -> y that is one-directional after a step and was not
\* before it lost its reverse edge y -> x in that step to the degree-cap
\* prune of y's list; as the empty index has no edge, every one-directional
\* edge of a reachable index arose from a prune.
C11_OneWayOnlyByPrune ==
    [][\A x, y \in 0..(Len(nodes') - 1) : \A layer \in 0..max_layer' :
           (OneWay(nodes', x, y, layer) /\ ~OneWay(nodes, x, y, layer))
           => PrunedAway(x, y, layer)]_vars

\* C11 witness: the last insert succeeded and the new node lists a
\* neighbour that does not list it, while another edge of the index is
\* bidirectional.
C11_Witness ==
    /\ result.op = "insert" /\ result.status = "Ok"
    /\ \E y \in 0..(Len(nodes) - 1) : OneWay(nodes, Len(nodes) - 1, y, 0)
    /\ \E x, y \in 0..(Len(nodes) - 1) :
           Edge(nodes, x, y, 0) /\ Edge(nodes, y, x, 0)

\* thread t is inside Collection::insert, between db.write() and the return
Inserting(t) ==
    \/ thr[t].pc \in {"insert", "index"}
    \/ thr[t].pc = "unlock" /\ thr[t].id # ""

\* thread t is inside Collection::search, between db.read() and the return
Searching(t) ==
    \/ thr[t].pc = "search"
    \/ thr[t].pc = "unlock" /\ thr[t].id = ""

\* C12: while a thread is inside an insert no other thread is inside an
\* insert or a search; while a thread is inside a search every insert is
\* complete (as many nodes and stored vectors as ids), and the answer the
\* search holds is the answer on the collection as it is now.
C12_WritersExclude ==
    \A t \in Threads :
        /\ Inserting(t) =>
               \A u \in Threads \ {t} : ~Inserting(u) /\ ~Searching(u)
        /\ Searching(t) =>
               /\ config.kind = "VectorDb" =>
                      Len(nodes) = len /\ Len(vectors) = len * dimensions
               /\ thr[t].pc = "unlock" =>
                      /\ thr[t].status = CollectionSearch(thr[t].vector, thr[t].k).status
                      /\ thr[t].items = CollectionSearch(thr[t].vector, thr[t].k).items

\* C12 witness: two threads are inside a search at the same time, one with
\* its answer and one still searching, after two inserts.
C12_Witness ==
    /\ len = 2
    /\ \E t, u \in Threads :
           /\ t # u
           /\ thr[t].pc = "unlock" /\ thr[t].id = "" /\ Len(thr[t].items) = 2
           /\ thr[u].pc = "search"

\* the names and the handles that refer to the collection o
Refs(o) ==
    Cardinality({n \in DOMAIN collections : collections[n] = o})
    + Cardinality({t \in Threads : cli[t].handle = Some(o)})

\* the collection o is held by a handle and by no name
Detached(o) ==
    /\ \E t \in Threads : cli[t].handle = Some(o)
    /\ \A n \in DOMAIN collections : collections[n] # o

\* C13: a handle obtained before delete_collection(name) keeps its
\* collection: the step that removes the name leaves the data behind every
\* handle as it was, a collection's data is released exactly when no name and
\* no handle refers to it any more, and get_collection of a name that is not
\* in the map fails with CollectionNotFound.
C13_HandleOutlivesName ==
    [][/\ \A o \in DOMAIN arcs' :
            /\ arcs'[o].strong = Refs(o)'
            /\ arcs'[o].data = None <=> Refs(o)' = 0
        /\ \A t \in Threads :
            /\ cli[t].handle # None /\ collections' # collections
               => arcs'[unwrap(cli[t].handle)].data = arcs[unwrap(cli[t].handle)].data
            /\ cli[t].pc = "get" /\ cli'[t].pc = "unlock"
                /\ cli[t].name \notin DOMAIN collections
               => cli'[t].status = "CollectionNotFound" /\ cli'[t].handle = None]_vars

\* a client has inserted through a handle whose collection no name maps to
\* any more, and the insert succeeded
C13_Witness ==
    \E t \in Threads :
        /\ cli[t].handle # None /\ Detached(unwrap(cli[t].handle))
        /\ cli[t].pc = "returned" /\ cli[t].id = "x" /\ cli[t].status = "Ok"
        /\ "x" \in DOMAIN Behind(t).id_to_internal
        /\ "a" \notin DOMAIN collections /\ "b" \notin DOMAIN collections

\* the step leaves the map and every collection as they were
MapKept == collections' = collections /\ arcs' = arcs

\* C14: the map of names behaves as a set under every interleaving:
\* create_collection fails with DuplicateCollection exactly when the name is
\* in the map and otherwise adds the name, which is still absent when it is
\* added, so that of several creates of one name one succeeds;
\* delete_collection and get_collection succeed exactly when the name is in
\* the map and fail with CollectionNotFound otherwise; and a failed call
\* changes neither the map nor a collection.
C14_MapIsSet ==
    [][\A t \in Threads :
          /\ cli[t].pc = "create" /\ cli'[t].pc # "create"
             => IF cli[t].name \in DOMAIN collections
                THEN cli'[t].status = "DuplicateCollection" /\ MapKept
                ELSE cli'[t].pc = "insert" /\ MapKept
          /\ cli[t].pc = "insert" /\ cli'[t].pc # "insert"
             => /\ cli[t].name \notin DOMAIN collections
                /\ cli'[t].status = "Ok"
                /\ DOMAIN collections' = DOMAIN collections \cup {cli[t].name}
                /\ \A n \in DOMAIN collections : collections'[n] = collections[n]
                /\ \A o \in DOMAIN arcs : arcs'[o] = arcs[o]
          /\ cli[t].pc = "delete" /\ cli'[t].pc # "delete"
             => IF cli[t].name \in DOMAIN collections
                THEN /\ cli'[t].status = "Ok"
                     /\ DOMAIN collections' = DOMAIN collections \ {cli[t].name}
                     /\ \A n \in DOMAIN collections' : collections'[n] = collections[n]
                ELSE cli'[t].status = "CollectionNotFound" /\ MapKept
          /\ cli[t].pc = "get" /\ cli'[t].pc # "get"
             => IF cli[t].name \in DOMAIN collections
                THEN /\ cli'[t].status = "Ok"
                     /\ cli'[t].handle = Some(collections[cli[t].name])
                     /\ collections' = collections
                ELSE cli'[t].status = "CollectionNotFound" /\ MapKept]_vars

\* a create_collection of a name in the map has failed with
\* DuplicateCollection while another client holds the collection of that
\* name with a vector in it
C14_Witness ==
    \E t, u \in Threads :
        /\ cli[t].pc = "unlock" /\ cli[t].status = "DuplicateCollection"
        /\ cli[t].name \in DOMAIN collections
        /\ cli[u].handle = Some(collections[cli[t].name])
        /\ "x" \in DOMAIN Behind(u).id_to_internal

\* the state after the first n operations of the workload
Applied(n) == replay(<<>>, [i \in 1..n |-> [seq |-> i, op |-> workload[i], torn |-> FALSE]], 0).state

\* the length of W_prefix: the operations whose records are fsynced or
\* under the watermark of the snapshot
Durable ==
    Max(IF snapshot = None THEN 0 ELSE unwrap(snapshot).watermark,
        IF wal.synced = 0 THEN 0 ELSE wal.records[wal.synced].seq)

\* the number of operations that have returned Ok
Acked == IF pdb.pc = "appended" THEN Len(workload) - 1 ELSE Len(workload)

\* the step reopens the collection after a crash
Reopens(clean) == ~pdb.open /\ pdb'.open /\ pdb.clean = clean /\ workload # <<>>

\* C15 as stated: reopening after a crash yields exactly apply(W_prefix),
\* W_prefix being the longest prefix of the workload whose last operation
\* completed its fsync.
C15_RecoversSyncedPrefix ==
    [][Reopens(FALSE) => pdb'.state = Applied(Durable)]_vars

\* C15, amended: reopening after a crash yields apply(P) for a prefix P of
\* the workload that is at least W_prefix, records written but not yet
\* fsynced being rolled forward when they survived; with sync_writes every
\* operation that returned Ok is in P; no operation is applied in part or
\* twice.
C15_RecoversPrefix ==
    [][Reopens(FALSE) =>
          /\ pdb'.seq \in Durable..Len(workload)
          /\ pdb'.state = Applied(pdb'.seq)
          /\ pdb.sync_writes => pdb'.seq >= Acked]_vars

\* the collection was reopened after a crash from a snapshot and the
\* records of the log after its watermark, and holds a record
C15_Witness ==
    /\ pdb.open /\ pdb.status = "Recovered" /\ ~pdb.clean
    /\ snapshot # None /\ pdb.seq > unwrap(snapshot).watermark
    /\ unwrap(snapshot).watermark > 0
    /\ pdb.state # <<>>

Reranked ==
    /\ config.kind = "QuantizedVectorDb"
    /\ config.keep_originals /\ config.quantization # "None"
    /\ result.op = "search" /\ result.status = "Ok"

\* the InternalIds stored
InternalIds == 0..(Len(internal_to_id) - 1)

\* the distance of the last query to the quantized vector of i, and to its
\* original
QuantizedDistance(i) == unwrap(storage_distance(result.vector, i))
ExactDistance(i) == distance(result.vector, unwrap(get_original(i)))

\* P is a set of the first n candidates in the order of quantized distance
IsPrefix(P, n) ==
    /\ Cardinality(P) = Min(n, Len(internal_to_id))
    /\ \A a \in P, b \in InternalIds \ P : QuantizedDistance(a) <= QuantizedDistance(b)

\* the InternalIds of the results returned
Returned_ids == {id_to_internal[result.items[j].id] : j \in DOMAIN result.items}

\* C17: with keep_originals and a quantization, the results of
\* QuantizedVectorDb::search are the k candidates of smallest exact distance
\* among the first k * rerank_multiplier candidates by quantized distance,
\* each with its exact distance and in ascending order of it; nothing from
\* outside that prefix is returned.
C17_RerankWithinPrefix ==
    Reranked =>
        \E P \in SUBSET InternalIds :
            /\ IsPrefix(P, result.k * config.rerank_multiplier)
            /\ Returned_ids \subseteq P
            /\ Len(result.items) = Min(result.k, Cardinality(P))
            /\ Cardinality(Returned_ids) = Len(result.items)
            /\ \A j \in DOMAIN result.items :
                   result.items[j].distance = ExactDistance(id_to_internal[result.items[j].id])
            /\ \A j \in 1..(Len(result.items) - 1) :
                   result.items[j].distance <= result.items[j + 1].distance
            /\ \A a \in Returned_ids, b \in P \ Returned_ids :
                   ExactDistance(a) <= ExactDistance(b)

\* a re-ranked search has returned the nearest of its prefix while a vector
\* outside the prefix is nearer to the query than every result
C17_Witness ==
    /\ Reranked /\ result.items # <<>>
    /\ result.k * config.rerank_multiplier < Len(internal_to_id)
    /\ \E b \in InternalIds \ Returned_ids :
           \A a \in Returned_ids : ExactDistance(b) < ExactDistance(a)

\* the InternalIds the same search returns without the re-rank
\* (keep_originals = false): the first k candidates by quantized distance
Plain_ids ==
    {c.id : c \in {take(sort_by_distance(all_candidates(result.vector, 0)), result.k)[j] :
                      j \in 1..Min(result.k, Len(internal_to_id))}}

\* T is a set of k nearest neighbours of the query by exact distance
IsGroundTruth(T) ==
    /\ Cardinality(T) = Min(result.k, Len(internal_to_id))
    /\ \A a \in T, b \in InternalIds \ T : ExactDistance(a) <= ExactDistance(b)

\* C18: with keep_originals and rerank_multiplier = 3 the search returns at
\* least as many of the exact k nearest neighbours as the search of the same
\* data without the re-rank, so that recall@k is not lower, for each choice
\* of the k nearest among equally distant vectors.
C18_RerankRecall ==
    Reranked /\ config.rerank_multiplier = 3 =>
        \A T \in SUBSET InternalIds :
            IsGroundTruth(T) =>
                Cardinality(T \cap Returned_ids) >= Cardinality(T \cap Plain_ids)

\* a re-ranked search over more than 3k vectors has returned the nearest
\* vector where the search without the re-rank returns another one
C18_Witness ==
    /\ Reranked /\ config.rerank_multiplier = 3
    /\ result.k * 3 < Len(internal_to_id)
    /\ \E T \in SUBSET InternalIds :
           /\ IsGroundTruth(T)
           /\ Cardinality(T \cap Returned_ids) > Cardinality(T \cap Plain_ids)

\* the InternalIds of the candidates that are re-ranked: the first
\* k * rerank_multiplier by quantized distance
Prefix_ids ==
    {c.id : c \in {all_sorted[j] : all_sorted \in {sort_by_distance(all_candidates(result.vector, 0))},
                                   j \in 1..Min(result.k * config.rerank_multiplier,
                                                Len(internal_to_id))}}

\* C20: in the re-ranked results two candidates of equal exact distance
\* stand with the lower InternalId first, whatever their quantized
\* distances, and where k cuts between two such candidates of the prefix the
\* lower InternalId is the one returned.
C20_RerankTiesByInternalId ==
    Reranked =>
        /\ \A i, j \in DOMAIN result.items :
               i < j /\ result.items[i].distance = result.items[j].distance
               => id_to_internal[result.items[i].id] < id_to_internal[result.items[j].id]
        /\ \A a \in Returned_ids, b \in Prefix_ids \ Returned_ids :
               ExactDistance(a) = ExactDistance(b) => a < b

\* a list of candidates has those of equal distance in the order of their
\* InternalIds
TiesByInternalId(cs) ==
    \A i, j \in DOMAIN cs : i < j /\ cs[i].distance = cs[j].distance => cs[i].id < cs[j].id

\* C19: the results of HnswIndex::search, and the candidates search_layer
\* hands to the selection of an inserted node's neighbours, have candidates
\* of equal distance to the query in the order of their InternalIds.
C19_TiesByInternalId ==
    /\ (config.kind = "VectorDb" /\ result.op = "search" /\ result.status = "Ok")
       => \A i, j \in DOMAIN result.items :
              i < j /\ result.items[i].distance = result.items[j].distance
              => id_to_internal[result.items[i].id] < id_to_internal[result.items[j].id]
    /\ (config.kind = "VectorDb" /\ entry_point # None /\ max_layer = 0)
       => \A vector \in Vectors :
              TiesByInternalId(search_layer(nodes, vectors, vector, unwrap(entry_point),
                                            config.hnsw.ef_construction, 0))

\* the step is a VectorDb::insert that returned Ok
InsertsOk ==
    /\ config.kind = "VectorDb" /\ result = Idle
    /\ result'.op = "insert" /\ result'.status = "Ok"

\* C21: two indexes built from the same sequence of inserts have the same
\* graph: an index with the same graph before an insert has, after the
\* insert of the same id and vector, the graph this one has, the level of
\* the new node being a function of the seed and its InternalId and so the
\* same in both.
C21_SameInsertsSameGraph ==
    [][InsertsOk =>
          \A node_level \in Levels :
              IndexInsert(index, vectors', Len(internal_to_id), result'.vector, node_level)
              = [nodes |-> nodes', entry_point |-> entry_point', max_layer |-> max_layer']]_vars

\* the lexicographic order of the names
Precedes(m, n) == m = "a" /\ n = "b"

\* C22: list_collections returns exactly the names that are in the map,
\* each once, in lexicographic order.
C22_ListLexicographic ==
    [][\A t \in Threads :
          cli[t].pc = "list" /\ cli'[t].pc = "unlock"
          => /\ {cli'[t].items[i] : i \in DOMAIN cli'[t].items} = DOMAIN collections
             /\ Len(cli'[t].items) = Cardinality(DOMAIN collections)
             /\ \A i, j \in DOMAIN cli'[t].items :
                    i < j => Precedes(cli'[t].items[i], cli'[t].items[j])]_vars

\* the orders in which the keys of the map can come
KeyOrders == {<<>>} \cup UNION {[1..n -> Names] : n \in 1..Cardinality(Names)}

\* client t holds the lock of the map
HoldsMap(t) == map_lock.writer = Some(t) \/ t \in map_lock.readers

\* a collection write in progress never blocks the lookup path: a client
\* inside Collection::insert or back from a call through its handle holds
\* no lock of the map, and with a client inside Collection::insert a
\* get_collection or list_collections that has the map goes on, one that
\* no Database method keeps from the map takes it, and a method that is
\* done returns
LookupNotBlocked ==
    \A t \in Threads :
        /\ cli[t].pc \in {"inserting", "returned"} => ~HoldsMap(t)
        /\ HoldsMap(t) <=> cli[t].pc \in {"create", "insert", "delete", "get", "list", "unlock"}
        /\ (\E u \in Threads : cli[u].pc = "inserting")
           => /\ cli[t].pc = "get" => ENABLED GetClone(t)
              /\ cli[t].pc = "list" => ENABLED (\E keys \in KeyOrders : ListKeys(t, keys))
              /\ cli[t].pc = "unlock" => ENABLED DbUnlock(t)
              /\ cli[t].pc = "idle" /\ cli[t].handle = None /\ can_read(map_lock)
                 => ENABLED DbLock(t, "get", "a") /\ ENABLED DbLock(t, "list", "")

\* C23, as stated: a collection write in progress never blocks the lookup
\* path, and a client that has the lock of the map gives it up after a single
\* lookup, insertion or removal.
C23_SingleMapOperation ==
    [][/\ LookupNotBlocked
       /\ \A t \in Threads :
              HoldsMap(t) /\ cli'[t].pc # cli[t].pc
              => cli'[t].pc \in {"unlock", "idle"}]_vars

\* C23: a collection write in progress never blocks the lookup path, and
\* a client holds the lock of the map for the map operations of one Database
\* method: one lookup, one removal or one listing, and in create_collection
\* the lookup, the construction of the collection and the insertion.
C23_OneMethod ==
    [][/\ LookupNotBlocked
       /\ \A t \in Threads :
              HoldsMap(t) /\ cli'[t].pc # cli[t].pc
              => \/ cli'[t].pc = "unlock" /\ cli[t].pc # "create"
                 \/ cli[t].pc = "create" /\ cli'[t].pc \in {"insert", "unlock"}
                 \/ cli[t].pc = "unlock" /\ cli'[t].pc = "idle" /\ ~HoldsMap(t)']_vars

\* a get_collection has returned the handle of a collection while another
\* client is inside Collection::insert on that collection
C23_Witness ==
    \E t, u \in Threads :
        /\ cli[u].pc = "inserting"
        /\ cli[t].pc = "unlock" /\ cli[t].handle = cli[u].handle /\ cli[t].status = "Ok"

\* the index a part spells in decimal, if it spells one
decimal(part) ==
    IF Len(part) = 1 /\ part[1] \in {"0", "1", "2"}
    THEN Some(CHOOSE n \in 0..2 : <<"0", "1", "2">>[n + 1] = part[1])
    ELSE None

\* the value a dot-notation path addresses when a part that is a decimal
\* index addresses the element of an array at that index
RECURSIVE addressed(_, _)
addressed(current, parts) ==
    IF parts = <<>> THEN Some(current)
    ELSE IF current.t = "Object" /\ parts[1] \in DOMAIN current.v
         THEN addressed(current.v[parts[1]], Tail(parts))
    ELSE IF current.t = "Array" /\ decimal(parts[1]) # None
            /\ unwrap(decimal(parts[1])) < Len(current.v)
         THEN addressed(current.v[unwrap(decimal(parts[1])) + 1], Tail(parts))
    ELSE None

\* C24: Filter::Exact with a dot-notation path addresses the element of an
\* array by a part that is a decimal index, so that it matches exactly when
\* the value the path addresses is the expected one, and the filter of
\* test_logical_operators matches the metadata of that test.
C24_IndexAddressesElement ==
    matched # None
    => /\ unwrap(matched).filter.t = "Exact" /\ unwrap(matched).filter.key # <<>>
          => unwrap(matched).result
             = equals_at(addressed(unwrap(matched).metadata, split(unwrap(matched).filter.key)),
                         unwrap(matched).filter.value)
       /\ unwrap(matched).filter = test_filter /\ unwrap(matched).metadata = test_metadata
          => unwrap(matched).result

\* C26: a VectorDb keeps its index and its storage aligned after every
\* insert, failed ones included: the index has as many nodes as the storage
\* has vectors, the node at position i has id i, and the entry point and
\* every entry of a neighbour list is a position of the node array.
C26_IndexStorageAligned ==
    config.kind = "VectorDb"
    => /\ Len(nodes) = len
       /\ \A i \in DOMAIN nodes : nodes[i].id = i - 1
       /\ entry_point # None => unwrap(entry_point) \in 0..(Len(nodes) - 1)
       /\ \A i \in DOMAIN nodes : \A l \in DOMAIN nodes[i].neighbors :
              \A j \in DOMAIN nodes[i].neighbors[l] :
                  nodes[i].neighbors[l][j] \in 0..(Len(nodes) - 1)

\* an insert has failed with DuplicateId on a VectorDb of two linked nodes
C26_Witness ==
    /\ config.kind = "VectorDb"
    /\ result.op = "insert" /\ result.status = "DuplicateId"
    /\ Len(nodes) = 2 /\ nodes[1].neighbors[1] = <<1>>

\* C27: the neighbour lists are well-formed: a node of max_layer L has
\* L + 1 lists, and every entry of the list of node x at layer l names an
\* existing node other than x whose max_layer is at least l, and occurs once
\* in the list.
C27_NeighbourListsWellFormed ==
    \A x \in DOMAIN nodes :
        /\ Len(nodes[x].neighbors) = nodes[x].max_layer + 1
        /\ \A l \in DOMAIN nodes[x].neighbors : \A j \in DOMAIN nodes[x].neighbors[l] :
               /\ nodes[x].neighbors[l][j] + 1 \in DOMAIN nodes
               /\ nodes[x].neighbors[l][j] # x - 1
               /\ nodes[nodes[x].neighbors[l][j] + 1].max_layer >= l - 1
               /\ \A i \in DOMAIN nodes[x].neighbors[l] :
                      i # j => nodes[x].neighbors[l][i] # nodes[x].neighbors[l][j]

\* three nodes, one of max_layer 1 with neighbours at both of its layers and
\* one with two neighbours at layer 0
C27_Witness ==
    /\ Len(nodes) = 3
    /\ \E x \in DOMAIN nodes :
           nodes[x].max_layer = 1 /\ nodes[x].neighbors[1] # <<>> /\ nodes[x].neighbors[2] # <<>>
    /\ \E x \in DOMAIN nodes : Len(nodes[x].neighbors[1]) = 2

\* the ids in a heap
heap_ids(heap) == {heap[i].id : i \in DOMAIN heap}

\* the round of search_layer from w to w2 queues only nodes it puts into
\* the visited set in that round, so that a node is popped at most once
QueuesUnvisited(w, w2) ==
    /\ w.s.st.visited \subseteq w2.s.st.visited
    /\ heap_ids(w2.s.st.candidates) \subseteq w2.s.st.visited
    /\ \A i, j \in DOMAIN w2.s.st.candidates :
           i # j => w2.s.st.candidates[i].id # w2.s.st.candidates[j].id
    /\ \A id \in heap_ids(w2.s.st.candidates) \cap w.s.st.visited :
           id \in heap_ids(pop("min", w.s.st.candidates).heap)

\* C25: search_layer_single and search_layer, and with them every
\* HnswIndex::search and HnswIndex::insert, terminate on any finite graph,
\* cyclic ones included: the loop of a call makes at most one round more
\* than the graph has nodes before the call returns; the greedy descent
\* moves on only to a strictly smaller distance; and the layer search
\* queues a node only as it enters the visited set, so that no node is
\* expanded twice.
C25_Terminates ==
    [][/\ unwrap(walk').rounds <= GraphNodes + 1
       /\ unwrap(walk).pc = "loop" /\ unwrap(walk').pc = "loop"
          => IF unwrap(walk).kind = "single"
             THEN unwrap(walk').cur.current_dist < unwrap(walk).cur.current_dist
             ELSE QueuesUnvisited(unwrap(walk), unwrap(walk'))]_vars

\* a greedy descent has returned after it moved, and a layer search after
\* it expanded every node, on a graph in which nodes 0 and 1 point at each
\* other
C25_Witness ==
    /\ walk # None /\ unwrap(walk).pc = "done"
    /\ 1 \in {unwrap(walk).ns[1].neighbors[1][i] : i \in DOMAIN unwrap(walk).ns[1].neighbors[1]}
    /\ 0 \in {unwrap(walk).ns[2].neighbors[1][i] : i \in DOMAIN unwrap(walk).ns[2].neighbors[1]}
    /\ \/ unwrap(walk).kind = "single" /\ unwrap(walk).cur.current # unwrap(walk).entry
       \/ unwrap(walk).kind = "layer" /\ unwrap(walk).rounds = GraphNodes + 1

\* C28: under every interleaving of threads that call storage.insert and
\* then index.insert with the InternalId returned, with searches in between,
\* the node at position i of the index has id i, and no call indexes the
\* node array out of bounds.
C28_AlignedUnderInterleaving ==
    /\ \A i \in DOMAIN nodes : nodes[i].id = i - 1
    /\ \A t \in Threads : proc[t].op # "panicked"

\* thread u holds a guard that keeps thread t from the guard it asks for
Waits(t, u) ==
    /\ wants(t) # None
    /\ \/ locks[unwrap(wants(t)).lock].writer = Some(u)
       \/ unwrap(wants(t)).kind = "write" /\ u \in locks[unwrap(wants(t)).lock].readers

\* C29: no interleaving of index inserts, searches, storage inserts and
\* storage reads deadlocks: there is no set of threads each of which waits
\* for a guard that a thread of the set holds.
C29_NoDeadlock ==
    \A S \in SUBSET Threads : S # {} => \E t \in S : \A u \in S : ~Waits(t, u)

\* a thread that holds its guards of the index waits for vectors, of which a
\* thread inside storage.insert holds the write guard
C29_Witness ==
    \E t, u \in Threads :
        /\ proc[t].op \in {"index_insert", "search"} /\ proc[t].held = 3
        /\ proc[u].op = "storage_insert" /\ Waits(t, u)

\* C30: for any interleaving of record_request with the tick of the
\* collection task, every snapshot's avg_latency_ms is the total latency of
\* exactly the requests counted in its window divided by their number.
C30_AverageOfCountedRequests ==
    \A i \in DOMAIN metrics.history :
        metrics.history[i].avg_latency_ms = avg_latency(tasks.windows[i].us, tasks.windows[i].n)

====
